---- MODULE Spec2Model ----
(***************************************************************************)
(* Model of the VPN handshake simulation of src/src/vpn_pqc_simulation.py: *)
(* the tunnel session (VPNTunnel; Spec and FairSpec) and the metrics       *)
(* analyzer (VPNAnalyzer; AnalyzerSpec); of the parameter table and the    *)
(* simulator of src/vpn_pqc_simulation.py (SimulatorSpec); of the choice   *)
(* of the recommended algorithm in src/vpn_pqc_simulation.py and           *)
(* src/run_all_simulations.py (ReportSpec); and of the remote-access load  *)
(* model of src/vpn_topology_simulation.py (LoadSpec); and of the two test *)
(* cases src/vpn_tradicional_test.py and src/vpn_postcuantico_test.py with *)
(* their runner src/ejecutar_tests.py (TestSpec).                          *)
(*                                                                         *)
(* Units.  Durations are integers in microseconds (the code holds seconds  *)
(* as floats); a duration drawn by random.uniform(lo, hi) is drawn here    *)
(* from the two ends of its range.  The elapsed time the code measures     *)
(* around time.sleep is modelled as the slept duration.  Means and ratios  *)
(* are exact rationals <<numerator, denominator>> in lowest terms.         *)
(***************************************************************************)
EXTENDS Integers, Sequences, FiniteSets, TLC

VARIABLES
    tunnel_type,      \* VPNTunnel.tunnel_type
    packet_size_kb,   \* VPNTunnel.packet_size_kb
    established,      \* VPNTunnel.established
    shared_secret,    \* VPNTunnel.shared_secret
    pc,               \* position inside establish_tunnel
    loc,              \* local variables of the running _establish_* call
    phases,           \* crypto primitives called by the running call, in order
    returned,         \* <<record>> the last establish_tunnel call returned, else <<>>
    send_result,      \* outcome of the last send_data call
    send_failed,      \* whether a send_data call on the session has raised
                      \* "Tunel no establecido"
    metrics,          \* VPNAnalyzer.metrics
    n_add,            \* add_metric calls made on the analyzer
    report,           \* outcome of generate_report while it is the last call made
    sim_pc,           \* position inside run_simulation
    sim_left,         \* iterations of the run_simulation loop still to run
    sim_size,         \* packet_size_kb of the running run_simulation call
    sim_outcome,      \* how the last run_simulation call ended
    crypto_params,    \* the module-level table CRYPTO_PARAMS
    simulator,        \* the attributes of the VPNSimulator
    kx,               \* locals of the running simulate_key_exchange call
    run,              \* locals of the running run_complete_simulation call
    sim_return,       \* what the last VPNSimulator call returned or raised
    results_df,       \* the result table handed to the analysis
    best_pqc,         \* the recommendation of the last analysis made of it
    n_best,           \* recommendations made of the table, per entry point
    user_locations,   \* RemoteAccessVPN.user_locations
    load,             \* locals of the running simulate_concurrent_connections call
    load_return,      \* what the last simulate_concurrent_connections call
                      \* returned or raised
    suite,            \* the run of main() of ejecutar_tests.py
    cp01,             \* the VPNTradicionalTest of the CP-01 process
    cp02              \* the VPNPostCuanticoTest of the CP-02 process

tunnelVars == <<tunnel_type, packet_size_kb, established, shared_secret, pc,
                loc, phases, returned, send_result, send_failed>>

analyzerVars == <<metrics, n_add, report, sim_pc, sim_left, sim_size, sim_outcome>>

simulatorVars == <<crypto_params, simulator, kx, run, sim_return>>

reportVars == <<results_df, best_pqc, n_best>>

loadVars == <<user_locations, load, load_return>>

testVars == <<suite, cp01, cp02>>

\* The state of the programs of src/ other than src/src/vpn_pqc_simulation.py.
restVars == <<simulatorVars, reportVars, loadVars, testVars>>

vars == <<tunnelVars, analyzerVars, restVars>>

None == "None"

\* ------------------------------------------------------------------ bounds

\* Records the analyzer collects before the model stops adding.
MaxMetrics == 4

\* Values handed to VPNTunnel(tunnel_type, packet_size_kb) and send_data(size_kb).
TunnelTypes == {"Traditional", "PostQuantum", "Hybrid"}
PacketSizes == {-1, 0, 100}

\* Faulty variant: the key exchange yields no secret.
Secrets_unset == {None}

\* The secret the key exchange yields (secrets.token_bytes(32)).
Secrets == {"secret_a"}

\* ------------------------------------------------- TraditionalCrypto (RSA+AES)

RSA_KEY_BITS == 2048

KeygenTimes == {50000, 100000}
KexTimes == {20000, 40000}
AesRates == {5000, 10000}

TraditionalKeySize_times8(key_size) == key_size * 8

\* key_generation returns key_size // 8 bytes.
TraditionalKeySize(key_size) == key_size \div 8

SECRET_SIZE == 32

\* Faulty variant: an empty payload is refused too.
EncryptRaises_zero(size_kb) == size_kb <= 0

\* encrypt_data sleeps (size_kb / 1024) * uniform(0.005, 0.01); time.sleep
\* raises ValueError on a negative length.
EncryptRaises(size_kb) == size_kb < 0

EncryptTime(size_kb, rate) == (size_kb * rate) \div 1024

\* ------------------------------------------- PostQuantumCrypto (Kyber+Dilithium)

KyberTimes == {500, 2000}

SignTimes_slow == {5000, 150000}

SignTimes == {5000, 15000}
VerifyTimes == {2000, 5000}

KYBER_PK_SIZE == 1184
KYBER_SK_SIZE == 2400
KYBER_CT_SIZE == 1088
DILITHIUM_SIG_SIZE == 3293
RSA_SIG_SIZE == 256

KyberKeySize == KYBER_PK_SIZE + KYBER_SK_SIZE

\* ----------------------------------------------------------------- VPNTunnel

NoLocals == [keygen_time |-> 0, kex_time |-> 0, decap_time |-> 0, sign_time |-> 0,
             verify_time |-> 0, handshake_total |-> 0, enc_time |-> 0,
             key_size |-> 0, ct_size |-> 0, sig_size |-> 0, overhead_latency |-> 0]

\* Faulty variant: every tunnel takes the traditional handshake.
IsTraditional_always(t) == TRUE

\* establish_tunnel dispatches on the type tag.
IsTraditional(t) == t = "Traditional"

HandshakeTotalTraditional(keygen_time, kex_time) == keygen_time + kex_time

\* Faulty variant: the verification time is left out of the total.
HandshakeTotalPostQuantum_noverify(keygen_time, encap_time, decap_time, sign_time, verify_time) ==
    keygen_time + encap_time + decap_time + sign_time

HandshakeTotalPostQuantum(keygen_time, encap_time, decap_time, sign_time, verify_time) ==
    keygen_time + encap_time + decap_time + sign_time + verify_time

\* One entry of the call log: the primitive called and the elapsed time it returned.
Phase(name, elapsed) == [name |-> name, elapsed |-> elapsed]

NoSend == [outcome |-> "none", size_kb |-> 0, encryption_time_ms |-> 0]

\* VPNMetrics(...) as built by the two _establish_* methods; decryption_time is
\* enc_time * 1.1.  The wall-clock timestamp field is left out.
VPNMetrics_swapped(vpn_type, keygen_time, key_exchange_time, handshake_total_time, encryption_time, key_size, ciphertext_size, signature_size, latency_ms, throughput_mbps, packet_loss_percent, cpu_usage_percent, memory_mb) ==
    [vpn_type |-> vpn_type,
     keygen_time |-> keygen_time,
     key_exchange_time |-> key_exchange_time,
     handshake_total_time |-> handshake_total_time,
     encryption_time |-> encryption_time,
     decryption_time |-> (encryption_time * 11) \div 10,
     key_size |-> key_size,
     ciphertext_size |-> signature_size,
     signature_size |-> ciphertext_size,
     latency_ms |-> latency_ms,
     throughput_mbps |-> throughput_mbps,
     packet_loss_percent |-> packet_loss_percent,
     cpu_usage_percent |-> cpu_usage_percent,
     memory_mb |-> memory_mb]

VPNMetrics(vpn_type, keygen_time, key_exchange_time, handshake_total_time, encryption_time, key_size, ciphertext_size, signature_size, latency_ms, throughput_mbps, packet_loss_percent, cpu_usage_percent, memory_mb) ==
    [vpn_type |-> vpn_type,
     keygen_time |-> keygen_time,
     key_exchange_time |-> key_exchange_time,
     handshake_total_time |-> handshake_total_time,
     encryption_time |-> encryption_time,
     decryption_time |-> (encryption_time * 11) \div 10,
     key_size |-> key_size,
     ciphertext_size |-> ciphertext_size,
     signature_size |-> signature_size,
     latency_ms |-> latency_ms,
     throughput_mbps |-> throughput_mbps,
     packet_loss_percent |-> packet_loss_percent,
     cpu_usage_percent |-> cpu_usage_percent,
     memory_mb |-> memory_mb]

\* Simulated network and resource figures: range ends of the random.uniform /
\* random.randint draws (packet loss in hundredths of a percent).
BaseLatency == {10, 20}
TradOverheadLatency == {2, 5}
TradThroughput == {80, 100}
TradPacketLoss == {10, 50}
TradCpu == {15, 25}
TradMemory == {50, 80}
PqcOverheadLatency == {5, 12}
PqcThroughput == {65, 85}
PqcPacketLoss == {20, 80}

\* Faulty variant: a post-quantum session may use less CPU than a traditional one.
PqcCpu_low == {20, 40}

PqcCpu == {25, 40}

PqcMemory == {80, 120}

\* -------------------------------------------------- what establish_tunnel returns

Min(S) == CHOOSE x \in S : \A y \in S : x <= y

Max(S) == CHOOSE x \in S : \A y \in S : x >= y

\* The draw of a session whose random draws all fall on the same end of their
\* ranges.
Quantiles == {"lo", "hi"}

Pick(S, q) == IF q = "lo" THEN Min(S) ELSE Max(S)

\* The record _establish_traditional returns when every draw is at quantile q.
EstablishedTraditional(size_kb, q) ==
    VPNMetrics("Traditional", Pick(KeygenTimes, q), Pick(KexTimes, q),
               HandshakeTotalTraditional(Pick(KeygenTimes, q), Pick(KexTimes, q)),
               EncryptTime(size_kb, Pick(AesRates, q)),
               TraditionalKeySize(RSA_KEY_BITS), size_kb * 1024, RSA_SIG_SIZE,
               Pick(BaseLatency, q) + Pick(TradOverheadLatency, q),
               Pick(TradThroughput, q), Pick(TradPacketLoss, q), Pick(TradCpu, q),
               Pick(TradMemory, q))

\* Faulty variant: the post-quantum session returns a record of the other family.
EstablishedPostQuantum_as_traditional(size_kb, q) == EstablishedTraditional(size_kb, q)

\* The record _establish_postquantum returns when every draw is at quantile q.
EstablishedPostQuantum(size_kb, q) ==
    VPNMetrics("PostQuantum", Pick(KyberTimes, q), Pick(KyberTimes, q) + Pick(KyberTimes, q),
               HandshakeTotalPostQuantum(Pick(KyberTimes, q), Pick(KyberTimes, q),
                                         Pick(KyberTimes, q), Pick(SignTimes, q),
                                         Pick(VerifyTimes, q)),
               EncryptTime(size_kb, Pick(AesRates, q)),
               KyberKeySize, KYBER_CT_SIZE, DILITHIUM_SIG_SIZE,
               Pick(BaseLatency, q) + Pick(PqcOverheadLatency, q),
               Pick(PqcThroughput, q), Pick(PqcPacketLoss, q), Pick(PqcCpu, q),
               Pick(PqcMemory, q))

\* ---------------------------------------------------------------- rationals

\* A float is modelled by the rational <<n, d>> it rounds, in lowest terms with
\* d > 0.  <<1, 0>>, <<-1, 0>> and <<0, 0>> stand for +Infinity, -Infinity and
\* NaN: what a division by zero would yield if it did not raise.
RECURSIVE GCD(_, _)
GCD(a, b) ==
    IF b = 0 THEN a ELSE CHOOSE g \in {GCD(b, r) : r \in {a % b}} : TRUE

Abs(x) == IF x < 0 THEN -x ELSE x

Sign(x) == IF x < 0 THEN -1 ELSE IF x > 0 THEN 1 ELSE 0

Norm(n, d) ==
    IF d = 0 THEN <<Sign(n), 0>>
    ELSE LET g == GCD(Abs(n), Abs(d)) IN <<(Sign(d) * n) \div g, Abs(d) \div g>>

Rat(i) == <<i, 1>>

RMul(a, b) == Norm(a[1] * b[1], a[2] * b[2])

RDiv(a, b) == Norm(a[1] * b[2], a[2] * b[1])

RSub(a, b) == Norm(a[1] * b[2] - b[1] * a[2], a[2] * b[2])

IsFinite(a) == a[2] # 0

\* Faulty variant: a division by zero yields Infinity or NaN instead of raising.
DivRaises_never(b) == FALSE

\* Python raises ZeroDivisionError on a division by zero, int or float.
DivRaises(b) == b[1] = 0 /\ b[2] # 0

\* ------------------------------------------------------ VPNAnalyzer, report

SECONDS_TO_MS == 1000
PERCENT == 100

RECURSIVE SumField(_, _)
SumField(ms, field) ==
    IF ms = <<>> THEN 0 ELSE Head(ms)[field] + SumField(Tail(ms), field)

IsTraditionalMetric(m) == m.vpn_type = "Traditional"

IsPostQuantumMetric(m) == m.vpn_type = "PostQuantum"

\* avg(metrics, field): statistics.mean(values) if values else 0
Avg(ms, field) == IF ms = <<>> THEN Rat(0) ELSE Norm(SumField(ms, field), Len(ms))

\* report['traditional'] and report['postquantum']
FamilyStats(ms) ==
    [avg_handshake_ms |-> RMul(Avg(ms, "handshake_total_time"), Rat(SECONDS_TO_MS)),
     avg_latency_ms |-> Avg(ms, "latency_ms"),
     avg_throughput_mbps |-> Avg(ms, "throughput_mbps"),
     avg_cpu_percent |-> Avg(ms, "cpu_usage_percent"),
     avg_memory_mb |-> Avg(ms, "memory_mb"),
     avg_key_size_bytes |-> Avg(ms, "key_size")]

\* Faulty variant: the ratio is taken the other way round.
PercentOver_swapped(a, b) == RMul(RSub(RDiv(b, a), Rat(1)), Rat(PERCENT))

\* Faulty variant: the ratio itself, without the subtraction of 1.
PercentOver_ratio(a, b) == RMul(RDiv(a, b), Rat(PERCENT))

\* ((a / b) - 1) * 100
PercentOver(a, b) == RMul(RSub(RDiv(a, b), Rat(1)), Rat(PERCENT))

\* report['overhead_analysis']
OverheadAnalysis(trad, pqc) ==
    [handshake_overhead_percent |->
         PercentOver(pqc.avg_handshake_ms, trad.avg_handshake_ms),
     latency_overhead_percent |->
         PercentOver(pqc.avg_latency_ms, trad.avg_latency_ms),
     throughput_degradation_percent |->
         PercentOver(trad.avg_throughput_mbps, pqc.avg_throughput_mbps),
     cpu_overhead_percent |->
         PercentOver(pqc.avg_cpu_percent, trad.avg_cpu_percent),
     memory_overhead_percent |->
         PercentOver(pqc.avg_memory_mb, trad.avg_memory_mb),
     key_size_increase_percent |->
         PercentOver(pqc.avg_key_size_bytes, trad.avg_key_size_bytes)]

\* The divisors of the six divisions of overhead_analysis.
Divisors(trad, pqc) ==
    {trad.avg_handshake_ms, trad.avg_latency_ms, pqc.avg_throughput_mbps,
     trad.avg_cpu_percent, trad.avg_memory_mb, trad.avg_key_size_bytes}

OverheadRaises(trad, pqc) == \E b \in Divisors(trad, pqc) : DivRaises(b)

NoStats == FamilyStats(<<>>)

NoOverhead ==
    [handshake_overhead_percent |-> Rat(0), latency_overhead_percent |-> Rat(0),
     throughput_degradation_percent |-> Rat(0), cpu_overhead_percent |-> Rat(0),
     memory_overhead_percent |-> Rat(0), key_size_increase_percent |-> Rat(0)]

\* No generate_report call is the last call made.
NoReport == [outcome |-> "none", total_simulations |-> 0, traditional |-> NoStats,
             postquantum |-> NoStats, overhead_analysis |-> NoOverhead]

\* generate_report left by the ZeroDivisionError of a division: nothing is returned.
RaisedReport == [outcome |-> "ZeroDivisionError", total_simulations |-> 0,
                 traditional |-> NoStats, postquantum |-> NoStats,
                 overhead_analysis |-> NoOverhead]

\* generate_report() on the collection ms.
GenerateReportOf(ms) ==
    LET trad == FamilyStats(SelectSeq(ms, IsTraditionalMetric))
        pqc == FamilyStats(SelectSeq(ms, IsPostQuantumMetric))
    IN IF OverheadRaises(trad, pqc) THEN RaisedReport
       ELSE [outcome |-> "ok", total_simulations |-> Len(ms), traditional |-> trad,
             postquantum |-> pqc, overhead_analysis |-> OverheadAnalysis(trad, pqc)]

\* ------------------------------------ src/vpn_pqc_simulation.py: the registry

\* The members of the enumeration CryptoType, named by their values, in the
\* order of their definition (the order `for crypto_type in CryptoType` takes).
CryptoTypeOrder ==
    <<"RSA-2048", "RSA-3072", "ECC-P256", "Kyber-512", "Kyber-768", "Kyber-1024",
      "Dilithium-2", "Dilithium-3">>

CryptoType == {CryptoTypeOrder[i] : i \in 1..Len(CryptoTypeOrder)}

\* The dataclass CryptoParams.
CryptoParams(key_size, signature_size, cpu_cycles, quantum_resistant) ==
    [key_size |-> key_size, signature_size |-> signature_size,
     cpu_cycles |-> cpu_cycles, quantum_resistant |-> quantum_resistant]

\* Faulty variant: the key of Kyber-512 entered with a digit missing.
CRYPTO_PARAMS_short_key ==
    ("RSA-2048" :> CryptoParams(256, 256, 3000000, FALSE))
    @@ ("RSA-3072" :> CryptoParams(384, 384, 8000000, FALSE))
    @@ ("ECC-P256" :> CryptoParams(32, 64, 500000, FALSE))
    @@ ("Kyber-512" :> CryptoParams(80, 0, 60000, TRUE))
    @@ ("Kyber-768" :> CryptoParams(1184, 0, 90000, TRUE))
    @@ ("Kyber-1024" :> CryptoParams(1568, 0, 130000, TRUE))
    @@ ("Dilithium-2" :> CryptoParams(1312, 2420, 120000, TRUE))
    @@ ("Dilithium-3" :> CryptoParams(1952, 3293, 180000, TRUE))

\* Faulty variant: the table without the entry of Dilithium-3.
CRYPTO_PARAMS_no_dilithium3 ==
    ("RSA-2048" :> CryptoParams(256, 256, 3000000, FALSE))
    @@ ("RSA-3072" :> CryptoParams(384, 384, 8000000, FALSE))
    @@ ("ECC-P256" :> CryptoParams(32, 64, 500000, FALSE))
    @@ ("Kyber-512" :> CryptoParams(800, 0, 60000, TRUE))
    @@ ("Kyber-768" :> CryptoParams(1184, 0, 90000, TRUE))
    @@ ("Kyber-1024" :> CryptoParams(1568, 0, 130000, TRUE))
    @@ ("Dilithium-2" :> CryptoParams(1312, 2420, 120000, TRUE))

\* The dictionary CRYPTO_PARAMS.
CRYPTO_PARAMS ==
    ("RSA-2048" :> CryptoParams(256, 256, 3000000, FALSE))
    @@ ("RSA-3072" :> CryptoParams(384, 384, 8000000, FALSE))
    @@ ("ECC-P256" :> CryptoParams(32, 64, 500000, FALSE))
    @@ ("Kyber-512" :> CryptoParams(800, 0, 60000, TRUE))
    @@ ("Kyber-768" :> CryptoParams(1184, 0, 90000, TRUE))
    @@ ("Kyber-1024" :> CryptoParams(1568, 0, 130000, TRUE))
    @@ ("Dilithium-2" :> CryptoParams(1312, 2420, 120000, TRUE))
    @@ ("Dilithium-3" :> CryptoParams(1952, 3293, 180000, TRUE))

\* ------------------------------------------- initial values of the other programs

\* self.cpu_speed_ghz = 2.4
CPU_SPEED_GHZ == <<12, 5>>

\* VPNSimulator.__init__(bandwidth_mbps, base_latency_ms)
NewSimulator(bandwidth_mbps, base_latency_ms) ==
    [bandwidth_mbps |-> bandwidth_mbps, base_latency_ms |-> base_latency_ms,
     cpu_speed_ghz |-> CPU_SPEED_GHZ, results |-> <<>>]

DEFAULT_BANDWIDTH_MBPS == 100
DEFAULT_BASE_LATENCY_MS == 10

\* No simulate_key_exchange call is running.
NoKx == [pc |-> "idle", crypto_type |-> None, packet_loss |-> 0, retransmissions |-> 0,
         key_gen_time |-> Rat(0), transmission_time |-> Rat(0),
         network_latency |-> Rat(0)]

\* No run_complete_simulation call is running.
NoRun == [pc |-> "idle", next |-> 0, all_results |-> <<>>, q |-> "lo"]

\* No VPNSimulator call has returned.
NoReturn == [op |-> "none", outcome |-> "none"]

\* A recommendation: how the selection ended, the algorithm selected and the
\* position of its row in the result table.
Choice(outcome, algorithm, row) == [outcome |-> outcome, algorithm |-> algorithm, row |-> row]

\* No analysis of the result table has been made, by the report or the summary.
NoBest == [report |-> Choice("none", None, 0), summary |-> Choice("none", None, 0)]

\* No simulate_concurrent_connections call is running.
NoLoad == [pc |-> "idle", crypto_type |-> None, concurrent_users |-> 0,
           base_time |-> 0, active_users |-> <<>>, connection_times |-> <<>>,
           attempts |-> <<>>, successful_connections |-> 0,
           failed_connections |-> 0]

NoLoadReturn == [outcome |-> "none"]

\* The module of the simulator as loaded, with a simulator of the default
\* arguments.
SimulatorLoaded ==
    /\ crypto_params = CRYPTO_PARAMS
    /\ kx = NoKx
    /\ run = NoRun
    /\ sim_return = NoReturn

\* No result table to analyse.
NoTable ==
    /\ results_df = <<>>
    /\ best_pqc = NoBest
    /\ n_best = [report |-> 0, summary |-> 0]

\* No remote-access simulator.
NoRemoteAccess ==
    /\ user_locations = <<>>
    /\ load = NoLoad
    /\ load_return = NoLoadReturn

\* No test process.
NoTests ==
    /\ suite = [pc |-> "idle", resultados |-> <<>>, launches |-> <<>>, exit_status |-> -1]
    /\ cp01 = [pc |-> "none"]
    /\ cp02 = [pc |-> "none"]

Idle == pc \in {"idle", "done", "raised"}

\* VPNTunnel.__init__
NewTunnel ==
    /\ established = FALSE
    /\ shared_secret = None
    /\ pc = "idle"
    /\ loc = NoLocals
    /\ phases = <<>>
    /\ returned = <<>>
    /\ send_result = NoSend
    /\ send_failed = FALSE

\* VPNAnalyzer.__init__
NewAnalyzer ==
    /\ metrics = <<>>
    /\ n_add = 0
    /\ report = NoReport
    /\ sim_pc = "idle"
    /\ sim_left = 0
    /\ sim_size = 0
    /\ sim_outcome = "none"

\* One tunnel session, of any type and payload size.
Init ==
    /\ tunnel_type \in TunnelTypes
    /\ packet_size_kb \in PacketSizes
    /\ NewTunnel
    /\ NewAnalyzer
    /\ simulator = NewSimulator(DEFAULT_BANDWIDTH_MBPS, DEFAULT_BASE_LATENCY_MS)
    /\ SimulatorLoaded
    /\ NoTests
    /\ NoTable
    /\ NoRemoteAccess

EstablishTunnel ==
    /\ Idle
    /\ pc' = IF IsTraditional(tunnel_type) THEN "t_keygen" ELSE "q_keygen"
    /\ loc' = NoLocals
    /\ phases' = <<>>
    /\ returned' = <<>>
    /\ UNCHANGED <<tunnel_type, packet_size_kb, established, shared_secret,
                   send_result, send_failed>>
    /\ UNCHANGED <<analyzerVars, restVars>>

\* Faulty variant: a failed send_data keeps the session from being established.
SetEstablished_latched == established' = ~send_failed

\* self.established = True, the last statement before the record is returned.
SetEstablished == established' = TRUE

tunnelFrame == UNCHANGED <<tunnel_type, packet_size_kb, send_result, send_failed,
                           analyzerVars, restVars>>

\* ---- _establish_traditional

KeyGeneration ==
    /\ pc = "t_keygen"
    /\ \E t \in KeygenTimes :
         /\ loc' = [loc EXCEPT !.keygen_time = t,
                               !.key_size = TraditionalKeySize(RSA_KEY_BITS)]
         /\ phases' = Append(phases, Phase("keygen", t))
    /\ pc' = "t_kex"
    /\ UNCHANGED <<established, shared_secret, returned>>
    /\ tunnelFrame

KeyExchange ==
    /\ pc = "t_kex"
    /\ \E t \in KexTimes, s \in Secrets :
         /\ shared_secret' = s
         /\ loc' = [loc EXCEPT !.kex_time = t,
                               !.ct_size = SECRET_SIZE,
                               !.handshake_total =
                                   HandshakeTotalTraditional(loc.keygen_time, t)]
         /\ phases' = Append(phases, Phase("exchange", t))
    /\ pc' = "t_enc"
    /\ UNCHANGED <<established, returned>>
    /\ tunnelFrame

EncryptTraditional ==
    /\ pc = "t_enc"
    /\ IF EncryptRaises(packet_size_kb)
       THEN /\ pc' = "raised"
            /\ UNCHANGED <<loc, phases>>
       ELSE /\ \E r \in AesRates :
                 LET t == EncryptTime(packet_size_kb, r) IN
                 /\ loc' = [loc EXCEPT !.enc_time = t]
                 /\ phases' = Append(phases, Phase("encrypt", t))
            /\ pc' = "t_ret"
    /\ UNCHANGED <<established, shared_secret, returned>>
    /\ tunnelFrame

ReturnTraditional ==
    /\ pc = "t_ret"
    /\ SetEstablished
    /\ \E base \in BaseLatency, over \in TradOverheadLatency, thr \in TradThroughput,
          loss \in TradPacketLoss, cpu \in TradCpu, mem \in TradMemory :
         /\ loc' = [loc EXCEPT !.overhead_latency = over]
         /\ returned' = <<VPNMetrics("Traditional", loc.keygen_time, loc.kex_time,
                                     loc.handshake_total, loc.enc_time, loc.key_size,
                                     packet_size_kb * 1024, RSA_SIG_SIZE,
                                     base + over, thr, loss, cpu, mem)>>
    /\ pc' = "done"
    /\ UNCHANGED <<shared_secret, phases>>
    /\ tunnelFrame

\* ---- _establish_postquantum

KyberKeygen ==
    /\ pc = "q_keygen"
    /\ \E t \in KyberTimes :
         /\ loc' = [loc EXCEPT !.keygen_time = t, !.key_size = KyberKeySize]
         /\ phases' = Append(phases, Phase("keygen", t))
    /\ pc' = "q_encap"
    /\ UNCHANGED <<established, shared_secret, returned>>
    /\ tunnelFrame

KyberEncapsulate ==
    /\ pc = "q_encap"
    /\ \E t \in KyberTimes, s \in Secrets :
         /\ shared_secret' = s
         /\ loc' = [loc EXCEPT !.kex_time = t, !.ct_size = KYBER_CT_SIZE]
         /\ phases' = Append(phases, Phase("encapsulate", t))
    /\ pc' = "q_decap"
    /\ UNCHANGED <<established, returned>>
    /\ tunnelFrame

KyberDecapsulate ==
    /\ pc = "q_decap"
    /\ \E t \in KyberTimes :
         /\ loc' = [loc EXCEPT !.decap_time = t]
         /\ phases' = Append(phases, Phase("decapsulate", t))
    /\ pc' = "q_sign"
    /\ UNCHANGED <<established, shared_secret, returned>>
    /\ tunnelFrame

DilithiumSign ==
    /\ pc = "q_sign"
    /\ \E t \in SignTimes :
         /\ loc' = [loc EXCEPT !.sign_time = t, !.sig_size = DILITHIUM_SIG_SIZE]
         /\ phases' = Append(phases, Phase("sign", t))
    /\ pc' = "q_verify"
    /\ UNCHANGED <<established, shared_secret, returned>>
    /\ tunnelFrame

DilithiumVerify ==
    /\ pc = "q_verify"
    /\ \E t \in VerifyTimes :
         /\ loc' = [loc EXCEPT !.verify_time = t,
                               !.handshake_total =
                                   HandshakeTotalPostQuantum(loc.keygen_time, loc.kex_time,
                                                             loc.decap_time, loc.sign_time, t)]
         /\ phases' = Append(phases, Phase("verify", t))
    /\ pc' = "q_enc"
    /\ UNCHANGED <<established, shared_secret, returned>>
    /\ tunnelFrame

EncryptPostQuantum ==
    /\ pc = "q_enc"
    /\ IF EncryptRaises(packet_size_kb)
       THEN /\ pc' = "raised"
            /\ UNCHANGED <<loc, phases>>
       ELSE /\ \E r \in AesRates :
                 LET t == EncryptTime(packet_size_kb, r) IN
                 /\ loc' = [loc EXCEPT !.enc_time = t]
                 /\ phases' = Append(phases, Phase("encrypt", t))
            /\ pc' = "q_ret"
    /\ UNCHANGED <<established, shared_secret, returned>>
    /\ tunnelFrame

ReturnPostQuantum ==
    /\ pc = "q_ret"
    /\ SetEstablished
    /\ \E base \in BaseLatency, over \in PqcOverheadLatency, thr \in PqcThroughput,
          loss \in PqcPacketLoss, cpu \in PqcCpu, mem \in PqcMemory :
         /\ loc' = [loc EXCEPT !.overhead_latency = over]
         /\ returned' = <<VPNMetrics("PostQuantum", loc.keygen_time,
                                     loc.kex_time + loc.decap_time,
                                     loc.handshake_total, loc.enc_time, loc.key_size,
                                     loc.ct_size, loc.sig_size,
                                     base + over, thr, loss, cpu, mem)>>
    /\ pc' = "done"
    /\ UNCHANGED <<shared_secret, phases>>
    /\ tunnelFrame

\* ---- send_data

\* Faulty variant: send_data without its guard.
SendDataRaises_never(est) == FALSE

\* The guard of send_data: it raises unless the tunnel is established.
SendDataRaises(est) == ~est

\* What a send_data(size_kb) call ends with: the exception raised, or "ok" and
\* the returned dictionary (encryption_time_ms in the model's microseconds).
SendOutcome(outcome, size_kb, enc_time) ==
    [outcome |-> outcome, size_kb |-> size_kb, encryption_time_ms |-> enc_time]

\* Faulty variant: a failed send_data clears the secret.
SendData_clears ==
    /\ Idle
    /\ \E size_kb \in PacketSizes :
         IF SendDataRaises(established)
         THEN /\ send_result' = SendOutcome("TunnelNotEstablished", size_kb, 0)
              /\ send_failed' = TRUE
              /\ shared_secret' = None
         ELSE /\ send_failed' = send_failed
              /\ shared_secret' = shared_secret
              /\ IF EncryptRaises(size_kb)
                 THEN send_result' = SendOutcome("ValueError", size_kb, 0)
                 ELSE \E r \in AesRates :
                        send_result' = SendOutcome("ok", size_kb, EncryptTime(size_kb, r))
    /\ UNCHANGED <<tunnel_type, packet_size_kb, established, pc,
                   loc, phases, returned>>
    /\ UNCHANGED <<analyzerVars, restVars>>

SendData ==
    /\ Idle
    /\ \E size_kb \in PacketSizes :
         IF SendDataRaises(established)
         THEN /\ send_result' = SendOutcome("TunnelNotEstablished", size_kb, 0)
              /\ send_failed' = TRUE
         ELSE /\ send_failed' = send_failed
              /\ IF EncryptRaises(size_kb)
                 THEN send_result' = SendOutcome("ValueError", size_kb, 0)
                 ELSE \E r \in AesRates :
                        send_result' = SendOutcome("ok", size_kb, EncryptTime(size_kb, r))
    /\ UNCHANGED <<tunnel_type, packet_size_kb, established, shared_secret, pc,
                   loc, phases, returned>>
    /\ UNCHANGED <<analyzerVars, restVars>>

EstablishStep ==
    \/ KeyGeneration
    \/ KeyExchange
    \/ EncryptTraditional
    \/ ReturnTraditional
    \/ KyberKeygen
    \/ KyberEncapsulate
    \/ KyberDecapsulate
    \/ DilithiumSign
    \/ DilithiumVerify
    \/ EncryptPostQuantum
    \/ ReturnPostQuantum

Next ==
    \/ EstablishTunnel
    \/ EstablishStep
    \/ SendData

Spec == Init /\ [][Next]_vars

\* establish_tunnel is straight-line code: a call that has begun runs on.
FairSpec == Spec /\ WF_vars(EstablishStep)

\* ---------------------------------------------------------------- VPNAnalyzer

\* A record whose numeric fields are all zero.
ZeroMetric(vpn_type) == VPNMetrics(vpn_type, 0, 0, 0, 0, 0, 0, 0, 0, 0, 0, 0, 0)

DEFAULT_PACKET_SIZE_KB == 100

\* Records handed to add_metric: what establish_tunnel returns for the default
\* payload, all-zero records of either family, a Traditional record with no
\* throughput, and a PostQuantum record with the figures of a Traditional one.
MetricInputs ==
    {EstablishedTraditional(DEFAULT_PACKET_SIZE_KB, q) : q \in Quantiles}
    \cup {EstablishedPostQuantum(DEFAULT_PACKET_SIZE_KB, q) : q \in Quantiles}
    \cup {ZeroMetric("Traditional"), ZeroMetric("PostQuantum"),
          [EstablishedTraditional(DEFAULT_PACKET_SIZE_KB, "lo") EXCEPT !.throughput_mbps = 0],
          [EstablishedTraditional(DEFAULT_PACKET_SIZE_KB, "lo") EXCEPT !.vpn_type = "PostQuantum"]}

\* Payload sizes handed to run_simulation.
SimPacketSizes == {-1, DEFAULT_PACKET_SIZE_KB}

\* One analyzer; the tunnels it creates live inside run_simulation.
AnalyzerInit ==
    /\ tunnel_type = "Traditional"
    /\ packet_size_kb = DEFAULT_PACKET_SIZE_KB
    /\ NewTunnel
    /\ NewAnalyzer
    /\ simulator = NewSimulator(DEFAULT_BANDWIDTH_MBPS, DEFAULT_BASE_LATENCY_MS)
    /\ SimulatorLoaded
    /\ NoTests
    /\ NoTable
    /\ NoRemoteAccess

AnalyzerIdle == sim_pc = "idle"

\* Faulty variant: a record already held is not added again.
AddMetric_dedup(ms, m) == IF \E i \in 1..Len(ms) : ms[i] = m THEN ms ELSE Append(ms, m)

\* self.metrics.append(metric)
AddMetricTo(ms, m) == Append(ms, m)

AddMetric ==
    /\ AnalyzerIdle
    /\ Len(metrics) < MaxMetrics
    /\ \E m \in MetricInputs : metrics' = AddMetricTo(metrics, m)
    /\ n_add' = n_add + 1
    /\ report' = NoReport
    /\ UNCHANGED <<sim_pc, sim_left, sim_size, sim_outcome>>
    /\ UNCHANGED <<tunnelVars, restVars>>

\* run_simulation(iterations, packet_size_kb): the call and the loop header.
RunSimulation ==
    /\ AnalyzerIdle
    /\ \E iterations \in 0..MaxMetrics, size_kb \in SimPacketSizes :
         /\ Len(metrics) + 2 * iterations <= MaxMetrics
         /\ sim_left' = iterations
         /\ IF iterations = 0
            THEN sim_pc' = "idle" /\ sim_outcome' = "completed" /\ sim_size' = 0
            ELSE sim_pc' = "trad" /\ sim_outcome' = "running" /\ sim_size' = size_kb
    /\ report' = NoReport
    /\ UNCHANGED <<metrics, n_add>>
    /\ UNCHANGED <<tunnelVars, restVars>>

\* VPNTunnel('Traditional', packet_size_kb).establish_tunnel(), then add_metric.
SimulateTraditional ==
    /\ sim_pc = "trad"
    /\ IF EncryptRaises(sim_size)
       THEN /\ sim_pc' = "idle"
            /\ sim_outcome' = "ValueError"
            /\ sim_left' = 0
            /\ sim_size' = 0
            /\ UNCHANGED <<metrics, n_add>>
       ELSE /\ \E q \in Quantiles :
                 metrics' = AddMetricTo(metrics, EstablishedTraditional(sim_size, q))
            /\ n_add' = n_add + 1
            /\ sim_pc' = "pqc"
            /\ UNCHANGED <<sim_left, sim_size, sim_outcome>>
    /\ UNCHANGED report
    /\ UNCHANGED <<tunnelVars, restVars>>

\* VPNTunnel('PostQuantum', packet_size_kb).establish_tunnel(), then add_metric,
\* then the next iteration or the end of the loop.
SimulatePostQuantum ==
    /\ sim_pc = "pqc"
    /\ IF EncryptRaises(sim_size)
       THEN /\ sim_pc' = "idle"
            /\ sim_outcome' = "ValueError"
            /\ sim_left' = 0
            /\ sim_size' = 0
            /\ UNCHANGED <<metrics, n_add>>
       ELSE /\ \E q \in Quantiles :
                 metrics' = AddMetricTo(metrics, EstablishedPostQuantum(sim_size, q))
            /\ n_add' = n_add + 1
            /\ sim_left' = sim_left - 1
            /\ IF sim_left = 1
               THEN sim_pc' = "idle" /\ sim_outcome' = "completed" /\ sim_size' = 0
               ELSE sim_pc' = "trad" /\ UNCHANGED <<sim_size, sim_outcome>>
    /\ UNCHANGED report
    /\ UNCHANGED <<tunnelVars, restVars>>

GenerateReport ==
    /\ AnalyzerIdle
    /\ report' = GenerateReportOf(metrics)
    /\ UNCHANGED <<metrics, n_add, sim_pc, sim_left, sim_size, sim_outcome>>
    /\ UNCHANGED <<tunnelVars, restVars>>

AnalyzerNext ==
    \/ AddMetric
    \/ RunSimulation
    \/ SimulateTraditional
    \/ SimulatePostQuantum
    \/ GenerateReport

AnalyzerSpec == AnalyzerInit /\ [][AnalyzerNext]_vars

\* ------------------------------ src/vpn_pqc_simulation.py: VPNSimulator

\* a + b, over the least common denominator.
RAdd(a, b) ==
    IF a[2] = 0 \/ b[2] = 0 THEN Norm(a[1] * b[2] + b[1] * a[2], 0)
    ELSE LET g == GCD(a[2], b[2])
         IN Norm(a[1] * (b[2] \div g) + b[1] * (a[2] \div g), (a[2] \div g) * b[2])

\* a < b; false when either is NaN.
RLess(a, b) == (a[2] # 0 \/ a[1] # 0) /\ (b[2] # 0 \/ b[1] # 0) /\ a[1] * b[2] < b[1] * a[2]

RMin(a, b) == IF RLess(b, a) THEN b ELSE a

RMax(a, b) == IF RLess(a, b) THEN b ELSE a

GIGA == 1000000000
MEGA == 1000000
BITS_PER_BYTE == 8
BYTES_PER_KB == 1024
MAX_RETRANSMISSIONS == 3
OPS_PER_SECOND == 1000
BASE_CPU_USAGE == 5
BASE_MEMORY == 50
RUN_DATA_SIZE_MB == 100
RUN_CPU_DURATION == 30

\* cycles / (cpu_speed_ghz * 1e9): the seconds the cycles take.
CpuSeconds(cycles, cpu_speed_ghz) == RDiv(Norm(cycles, GIGA), cpu_speed_ghz)

\* Arguments of the simulator and of its operations.  "Falcon-512" is a name
\* CRYPTO_PARAMS has no entry for; a packet loss is in percent (0.01 is 1).
Bandwidths == {0, DEFAULT_BANDWIDTH_MBPS}
CryptoInputs == CryptoType \cup {"Falcon-512"}
PacketLosses == {0, 1, 100, 150}
DataSizes == {0, 10, RUN_DATA_SIZE_MB}
Variations == {-8, 0, 8}
Durations == {0, 1, 2}

\* What a VPNSimulator call that raises leaves.
Raised(op, crypto_type, exception) ==
    [op |-> op, outcome |-> exception, crypto_type |-> crypto_type]

\* ---- simulate_key_exchange

\* (params.key_size * 8) / (self.bandwidth_mbps * 1e6)
LossFreeTransmission(params, sim) ==
    RDiv(Rat(params.key_size * BITS_PER_BYTE), RMul(Rat(sim.bandwidth_mbps), Rat(MEGA)))

\* The locals of simulate_key_exchange when it reaches its while loop.
KeyExchangeLocals(table, sim, crypto_type, packet_loss) ==
    [pc |-> "loop", crypto_type |-> crypto_type, packet_loss |-> packet_loss,
     retransmissions |-> 0,
     key_gen_time |-> CpuSeconds(table[crypto_type].cpu_cycles, sim.cpu_speed_ghz),
     transmission_time |-> LossFreeTransmission(table[crypto_type], sim),
     network_latency |-> Norm(sim.base_latency_ms, SECONDS_TO_MS)]

\* Faulty variant: a retransmission is counted but its time is not.
Retransmitted_undoubled(k) == [k EXCEPT !.retransmissions = @ + 1]

\* One iteration of the loop: retransmissions += 1; transmission_time *= 2
Retransmitted(k) ==
    [k EXCEPT !.retransmissions = @ + 1, !.transmission_time = RMul(@, Rat(2))]

\* n iterations of the loop.
RECURSIVE RetransmittedTimes(_, _)
RetransmittedTimes(k, n) == IF n = 0 THEN k ELSE RetransmittedTimes(Retransmitted(k), n - 1)

\* The dictionary simulate_key_exchange returns.
KeyExchangeDict(table, k) ==
    [op |-> "simulate_key_exchange", outcome |-> "ok",
     crypto_type |-> k.crypto_type,
     key_size_bytes |-> table[k.crypto_type].key_size,
     key_gen_time_ms |-> RMul(k.key_gen_time, Rat(SECONDS_TO_MS)),
     transmission_time_ms |-> RMul(k.transmission_time, Rat(SECONDS_TO_MS)),
     network_latency_ms |-> RMul(k.network_latency, Rat(SECONDS_TO_MS)),
     retransmissions |-> k.retransmissions,
     total_time_ms |->
         RMul(RAdd(RAdd(k.key_gen_time, k.transmission_time), k.network_latency),
              Rat(SECONDS_TO_MS)),
     quantum_resistant |-> table[k.crypto_type].quantum_resistant]

\* The exception the statements before the loop raise, or None.
KeyExchangeRaises(table, sim, crypto_type) ==
    IF crypto_type \notin DOMAIN table THEN "KeyError"
    ELSE IF DivRaises(RMul(Rat(sim.bandwidth_mbps), Rat(MEGA))) THEN "ZeroDivisionError"
    ELSE None

\* simulate_key_exchange(crypto_type) run to its end with n retransmissions.
KeyExchangeOf(table, sim, crypto_type, packet_loss, n) ==
    IF KeyExchangeRaises(table, sim, crypto_type) # None
    THEN Raised("simulate_key_exchange", crypto_type,
                KeyExchangeRaises(table, sim, crypto_type))
    ELSE KeyExchangeDict(table,
             RetransmittedTimes(KeyExchangeLocals(table, sim, crypto_type, packet_loss), n))

\* ---- simulate_data_transfer

\* overhead_factor = 1.15 if params.quantum_resistant else 1.05
OverheadFactor(params) == IF params.quantum_resistant THEN <<23, 20>> ELSE <<21, 20>>

DataTransferOf(table, sim, crypto_type, data_size_mb) ==
    IF crypto_type \notin DOMAIN table
    THEN Raised("simulate_data_transfer", crypto_type, "KeyError")
    ELSE LET params == table[crypto_type]
             actual_data_size == RMul(Rat(data_size_mb), OverheadFactor(params))
             crypto_time ==
                 RDiv(Norm(params.cpu_cycles * data_size_mb, GIGA), sim.cpu_speed_ghz)
             transmission_time ==
                 RDiv(RMul(actual_data_size, Rat(BITS_PER_BYTE)), Rat(sim.bandwidth_mbps))
             total_time == RAdd(crypto_time, transmission_time)
         IN IF DivRaises(Rat(sim.bandwidth_mbps)) \/ DivRaises(total_time)
            THEN Raised("simulate_data_transfer", crypto_type, "ZeroDivisionError")
            ELSE [op |-> "simulate_data_transfer", outcome |-> "ok",
                  crypto_type |-> crypto_type,
                  data_size_mb |-> data_size_mb,
                  overhead_percent |->
                      RMul(RSub(OverheadFactor(params), Rat(1)), Rat(PERCENT)),
                  encryption_time_s |-> crypto_time,
                  transmission_time_s |-> transmission_time,
                  total_time_s |-> total_time,
                  effective_throughput_mbps |-> RDiv(Rat(data_size_mb), total_time),
                  quantum_resistant |-> params.quantum_resistant]

\* ---- simulate_cpu_usage

\* (params.cpu_cycles * ops_per_second) / (self.cpu_speed_ghz * 1e9) * 100
CryptoCpuUsage(params, sim) ==
    RMul(RDiv(RMul(Norm(params.cpu_cycles, GIGA), Rat(OPS_PER_SECOND)), sim.cpu_speed_ghz),
         Rat(PERCENT))

\* min(100, max(0, base_cpu_usage + crypto_cpu_usage + variation))
CpuSample(params, sim, variation) ==
    RMin(Rat(PERCENT),
         RMax(Rat(0), RAdd(RAdd(Rat(BASE_CPU_USAGE), CryptoCpuUsage(params, sim)),
                           Rat(variation))))

RECURSIVE RSum(_)
RSum(xs) == IF xs = <<>> THEN Rat(0) ELSE RAdd(Head(xs), RSum(Tail(xs)))

RECURSIVE RMinOf(_)
RMinOf(xs) == IF Len(xs) = 1 THEN xs[1] ELSE RMin(Head(xs), RMinOf(Tail(xs)))

RECURSIVE RMaxOf(_)
RMaxOf(xs) == IF Len(xs) = 1 THEN xs[1] ELSE RMax(Head(xs), RMaxOf(Tail(xs)))

\* np.mean of a list that is not empty
RMean(xs) == RDiv(RSum(xs), Rat(Len(xs)))

\* simulate_cpu_usage with the gaussian draws `variations`, one per second of
\* the duration.  np.std, an irrational number, is left out of the result;
\* np.max of an empty list raises ValueError.
CpuUsageOf(table, sim, crypto_type, variations) ==
    IF crypto_type \notin DOMAIN table
    THEN Raised("simulate_cpu_usage", crypto_type, "KeyError")
    ELSE IF variations = <<>>
    THEN Raised("simulate_cpu_usage", crypto_type, "ValueError")
    ELSE LET cpu_samples ==
                 [i \in 1..Len(variations) |->
                      CpuSample(table[crypto_type], sim, variations[i])]
         IN [op |-> "simulate_cpu_usage", outcome |-> "ok",
             crypto_type |-> crypto_type,
             avg_cpu_usage |-> RMean(cpu_samples),
             max_cpu_usage |-> RMaxOf(cpu_samples),
             min_cpu_usage |-> RMinOf(cpu_samples),
             quantum_resistant |-> table[crypto_type].quantum_resistant]

\* ---- simulate_memory_usage

MemoryUsageOf(table, sim, crypto_type) ==
    IF crypto_type \notin DOMAIN table
    THEN Raised("simulate_memory_usage", crypto_type, "KeyError")
    ELSE LET params == table[crypto_type]
             key_memory == Norm(params.key_size, BYTES_PER_KB)
             buffer_memory == Norm(params.key_size * 10, BYTES_PER_KB)
             additional_memory ==
                 IF params.quantum_resistant
                 THEN Norm(params.key_size * 20, BYTES_PER_KB)
                 ELSE Norm(params.key_size * 5, BYTES_PER_KB)
         IN [op |-> "simulate_memory_usage", outcome |-> "ok",
             crypto_type |-> crypto_type,
             base_memory_mb |-> Rat(BASE_MEMORY),
             key_memory_mb |-> key_memory,
             buffer_memory_mb |-> buffer_memory,
             additional_memory_mb |-> additional_memory,
             total_memory_mb |->
                 RAdd(RAdd(RAdd(Rat(BASE_MEMORY), key_memory), buffer_memory),
                      additional_memory),
             quantum_resistant |-> params.quantum_resistant]

\* ---- run_complete_simulation

\* One row of the result table.
ResultRow(algorithm, quantum_resistant, key_size_bytes, key_exchange_time_ms, throughput_mbps, encryption_overhead, avg_cpu_usage, memory_usage_mb) ==
    [algorithm |-> algorithm,
     quantum_resistant |-> quantum_resistant,
     key_size_bytes |-> key_size_bytes,
     key_exchange_time_ms |-> key_exchange_time_ms,
     throughput_mbps |-> throughput_mbps,
     encryption_overhead |-> encryption_overhead,
     avg_cpu_usage |-> avg_cpu_usage,
     memory_usage_mb |-> memory_usage_mb]

\* combined_result of the four dictionaries
CombinedResult(table, crypto_type, key_exchange, data_transfer, cpu_usage, memory_usage) ==
    ResultRow(crypto_type, table[crypto_type].quantum_resistant,
              key_exchange.key_size_bytes, key_exchange.total_time_ms,
              data_transfer.effective_throughput_mbps, data_transfer.overhead_percent,
              cpu_usage.avg_cpu_usage, memory_usage.total_memory_mb)

\* The four calls of one iteration, with every random draw at quantile q (no
\* retransmission or the most, the lowest or the highest variation of every
\* CPU sample).
IterationCalls(table, sim, crypto_type, q) ==
    <<KeyExchangeOf(table, sim, crypto_type, 1,
                    IF q = "lo" THEN 0 ELSE MAX_RETRANSMISSIONS),
      DataTransferOf(table, sim, crypto_type, RUN_DATA_SIZE_MB),
      CpuUsageOf(table, sim, crypto_type,
                 [i \in 1..RUN_CPU_DURATION |-> Pick(Variations, q)]),
      MemoryUsageOf(table, sim, crypto_type)>>

\* The first of the calls to raise, as a sequence of at most one element.
FirstRaised(calls) ==
    LET bad == {i \in 1..Len(calls) : calls[i].outcome # "ok"}
    IN IF bad = {} THEN <<>> ELSE <<calls[Min(bad)]>>

\* ---- the simulator's operations

\* A simulator of any bandwidth, with the module's table.
SimulatorInit ==
    /\ tunnel_type = "Traditional"
    /\ packet_size_kb = DEFAULT_PACKET_SIZE_KB
    /\ NewTunnel
    /\ NewAnalyzer
    /\ \E bandwidth_mbps \in Bandwidths :
         simulator = NewSimulator(bandwidth_mbps, DEFAULT_BASE_LATENCY_MS)
    /\ SimulatorLoaded
    /\ NoTests
    /\ NoTable
    /\ NoRemoteAccess

SimulatorIdle == kx.pc = "idle" /\ run.pc = "idle"

simulatorFrame == UNCHANGED <<crypto_params, simulator, tunnelVars, analyzerVars,
                              reportVars, loadVars, testVars>>

\* simulate_key_exchange(crypto_type, packet_loss), up to its while loop.
SimulateKeyExchange ==
    /\ SimulatorIdle
    /\ \E crypto_type \in CryptoInputs, packet_loss \in PacketLosses :
         IF KeyExchangeRaises(crypto_params, simulator, crypto_type) # None
         THEN /\ sim_return' = KeyExchangeOf(crypto_params, simulator, crypto_type,
                                             packet_loss, 0)
              /\ kx' = NoKx
         ELSE /\ kx' = KeyExchangeLocals(crypto_params, simulator, crypto_type, packet_loss)
              /\ sim_return' = NoReturn
    /\ UNCHANGED run
    /\ simulatorFrame

\* The loop condition holds: random.random(), in [0, 1), is below packet_loss
\* and there were fewer than 3 retransmissions.
Retransmit ==
    /\ kx.pc = "loop"
    /\ kx.packet_loss > 0
    /\ kx.retransmissions < MAX_RETRANSMISSIONS
    /\ kx' = Retransmitted(kx)
    /\ UNCHANGED <<run, sim_return>>
    /\ simulatorFrame

\* The loop condition fails, and the dictionary is returned.
KeyExchangeReturn ==
    /\ kx.pc = "loop"
    /\ kx.packet_loss < PERCENT \/ kx.retransmissions >= MAX_RETRANSMISSIONS
    /\ sim_return' = KeyExchangeDict(crypto_params, kx)
    /\ kx' = NoKx
    /\ UNCHANGED run
    /\ simulatorFrame

SimulateDataTransfer ==
    /\ SimulatorIdle
    /\ \E crypto_type \in CryptoInputs, data_size_mb \in DataSizes :
         sim_return' = DataTransferOf(crypto_params, simulator, crypto_type, data_size_mb)
    /\ UNCHANGED <<kx, run>>
    /\ simulatorFrame

SimulateCpuUsage ==
    /\ SimulatorIdle
    /\ \E crypto_type \in CryptoInputs, duration_seconds \in Durations :
         \E variations \in [1..duration_seconds -> Variations] :
             sim_return' = CpuUsageOf(crypto_params, simulator, crypto_type, variations)
    /\ UNCHANGED <<kx, run>>
    /\ simulatorFrame

SimulateMemoryUsage ==
    /\ SimulatorIdle
    /\ \E crypto_type \in CryptoInputs :
         sim_return' = MemoryUsageOf(crypto_params, simulator, crypto_type)
    /\ UNCHANGED <<kx, run>>
    /\ simulatorFrame

\* run_complete_simulation(): all_results = [].  The random draws of the call
\* all fall at one quantile, fixed here.
RunCompleteSimulation ==
    /\ SimulatorIdle
    /\ \E q \in Quantiles : run' = [pc |-> "loop", next |-> 1, all_results |-> <<>>, q |-> q]
    /\ sim_return' = NoReturn
    /\ UNCHANGED kx
    /\ simulatorFrame

\* One iteration of `for crypto_type in CryptoType`.
RunCompleteIteration ==
    /\ run.pc = "loop"
    /\ run.next <= Len(CryptoTypeOrder)
    /\ LET crypto_type == CryptoTypeOrder[run.next]
           calls == IterationCalls(crypto_params, simulator, crypto_type, run.q)
       IN IF FirstRaised(calls) # <<>>
          THEN /\ sim_return' = [FirstRaised(calls)[1] EXCEPT
                                     !.op = "run_complete_simulation"]
               /\ run' = NoRun
          ELSE /\ run' = [run EXCEPT
                             !.next = @ + 1,
                             !.all_results =
                                 Append(@, CombinedResult(crypto_params, crypto_type,
                                                          calls[1], calls[2], calls[3],
                                                          calls[4]))]
               /\ UNCHANGED sim_return
    /\ UNCHANGED kx
    /\ simulatorFrame

\* return pd.DataFrame(all_results)
RunCompleteReturn ==
    /\ run.pc = "loop"
    /\ run.next > Len(CryptoTypeOrder)
    /\ sim_return' = [op |-> "run_complete_simulation", outcome |-> "ok",
                      rows |-> run.all_results]
    /\ run' = NoRun
    /\ UNCHANGED kx
    /\ simulatorFrame

SimulatorNext ==
    \/ SimulateKeyExchange
    \/ Retransmit
    \/ KeyExchangeReturn
    \/ SimulateDataTransfer
    \/ SimulateCpuUsage
    \/ SimulateMemoryUsage
    \/ RunCompleteSimulation
    \/ RunCompleteIteration
    \/ RunCompleteReturn

SimulatorSpec == SimulatorInit /\ [][SimulatorNext]_vars

\* The while loop of simulate_key_exchange is straight-line code: a call that
\* has reached it runs on, through another iteration or to the return.
SimulatorFairSpec == SimulatorSpec /\ WF_vars(Retransmit \/ KeyExchangeReturn)

\* ------------- the recommended algorithm: src/vpn_pqc_simulation.py VPNAnalyzer
\* ------------- and src/run_all_simulations.py generate_executive_summary

\* Rows of the result table and times the table is analysed per entry point.
MaxRows == 3
MaxInvocations == 2

NaN == <<0, 0>>

IsNaN(a) == a = NaN

\* A row of a result table read from vpn_simulation_results.csv or handed to
\* VPNAnalyzer(results_df).
TableRow(algorithm, throughput_mbps, key_exchange_time_ms) ==
    ResultRow(algorithm, CRYPTO_PARAMS[algorithm].quantum_resistant,
              CRYPTO_PARAMS[algorithm].key_size, Rat(key_exchange_time_ms),
              Rat(throughput_mbps),
              RMul(RSub(OverheadFactor(CRYPTO_PARAMS[algorithm]), Rat(1)), Rat(PERCENT)),
              Rat(10), Rat(60))

TableRows ==
    {TableRow("RSA-2048", 50, 10), TableRow("ECC-P256", 40, 12),
     TableRow("Kyber-512", 40, 11), TableRow("Kyber-768", 40, 10),
     TableRow("Kyber-1024", 30, 11), TableRow("Dilithium-2", 45, 13)}

\* The result tables, of up to MaxRows rows.
Tables == UNION {[1..n -> TableRows] : n \in 0..MaxRows}

\* The labels (positions) of the rows of each family:
\* results_df[~results_df['quantum_resistant']], results_df[results_df['quantum_resistant']]
TraditionalLabels(df) == {i \in 1..Len(df) : ~df[i].quantum_resistant}

PqcLabels(df) == {i \in 1..Len(df) : df[i].quantum_resistant}

\* The labels of a family in the order of the table.
RECURSIVE InOrder(_)
InOrder(labels) ==
    IF labels = {} THEN <<>> ELSE <<Min(labels)>> \o InOrder(labels \ {Min(labels)})

\* The mean of a column over the rows of `labels`; NaN over no row.
ColumnMean(df, labels, column) ==
    IF labels = {} THEN NaN
    ELSE RDiv(RSum([k \in 1..Cardinality(labels) |-> df[InOrder(labels)[k]][column]]),
              Rat(Cardinality(labels)))

\* Faulty variant: the ratio is taken the other way round.
PercentOverFloat64_inverted(a, b) == RMul(RSub(RDiv(b, a), Rat(1)), Rat(PERCENT))

\* ((a / b) - 1) * 100 in numpy's float64: a division by zero yields inf or nan
\* and raises nothing.
PercentOverFloat64(a, b) == RMul(RSub(RDiv(a, b), Rat(1)), Rat(PERCENT))

\* calculate_overhead(): one row per quantum-resistant row, in table order.
CalculateOverhead(df) ==
    LET trad == TraditionalLabels(df)
        pqc == InOrder(PqcLabels(df))
    IN [k \in 1..Len(pqc) |->
           LET pqc_row == df[pqc[k]] IN
           [pqc_algorithm |-> pqc_row.algorithm,
            key_exchange_overhead |->
                PercentOverFloat64(pqc_row.key_exchange_time_ms,
                                   ColumnMean(df, trad, "key_exchange_time_ms")),
            throughput_reduction |->
                PercentOverFloat64(ColumnMean(df, trad, "throughput_mbps"),
                                   pqc_row.throughput_mbps),
            cpu_overhead |->
                PercentOverFloat64(pqc_row.avg_cpu_usage,
                                   ColumnMean(df, trad, "avg_cpu_usage")),
            memory_overhead |->
                PercentOverFloat64(pqc_row.memory_usage_mb,
                                   ColumnMean(df, trad, "memory_usage_mb"))]]

\* Faulty variant: a later value that equals the best one replaces it.
Better_or_equal(a, b) == ~RLess(b, a)

\* Whether the scan of idxmin / idxmax replaces the best value b by a.
Better(a, b) == RLess(a, b)

\* The scan of Series.idxmin over xs[i..]: `best` is the position of the
\* least value seen (0: none); NaN is skipped, an equal value replaces nothing.
RECURSIVE IdxMinFrom(_, _, _)
IdxMinFrom(xs, i, best) ==
    IF i > Len(xs) THEN best
    ELSE IF IsNaN(xs[i]) THEN IdxMinFrom(xs, i + 1, best)
    ELSE IF best = 0 \/ Better(xs[i], xs[best]) THEN IdxMinFrom(xs, i + 1, i)
    ELSE IdxMinFrom(xs, i + 1, best)

IdxMin(xs) == IdxMinFrom(xs, 1, 0)

\* Series.idxmax: the scan of idxmin over the negated values.
IdxMax(xs) == IdxMin([i \in 1..Len(xs) |-> <<-xs[i][1], xs[i][2]>>])

\* VPNAnalyzer(results_df).generate_report(): best_pqc.  An overhead table
\* without rows has no column to select (KeyError); idxmin over NaN only
\* yields no position to index with.
ReportBest(df) ==
    LET overhead_df == CalculateOverhead(df)
        pqc == InOrder(PqcLabels(df))
        best_pqc_idx == IdxMin([k \in 1..Len(overhead_df) |->
                                    overhead_df[k].throughput_reduction])
    IN IF overhead_df = <<>> THEN Choice("KeyError", None, 0)
       ELSE IF best_pqc_idx = 0 THEN Choice("ValueError", None, 0)
       ELSE Choice("ok", overhead_df[best_pqc_idx].pqc_algorithm, pqc[best_pqc_idx])

\* generate_executive_summary(): best_pqc.  idxmax of an empty column raises
\* ValueError, which the bare except turns into a summary without a
\* recommendation.
SummaryBest(df) ==
    LET pqc == InOrder(PqcLabels(df))
        best == IdxMax([k \in 1..Len(pqc) |-> df[pqc[k]].throughput_mbps])
    IN IF best = 0 THEN Choice("caught", None, 0)
       ELSE Choice("ok", df[pqc[best]].algorithm, pqc[best])

\* A result table, not analysed yet.
ReportInit ==
    /\ tunnel_type = "Traditional"
    /\ packet_size_kb = DEFAULT_PACKET_SIZE_KB
    /\ NewTunnel
    /\ NewAnalyzer
    /\ simulator = NewSimulator(DEFAULT_BANDWIDTH_MBPS, DEFAULT_BASE_LATENCY_MS)
    /\ SimulatorLoaded
    /\ NoTests
    /\ results_df \in Tables
    /\ best_pqc = NoBest
    /\ n_best = [report |-> 0, summary |-> 0]
    /\ NoRemoteAccess

reportFrame == UNCHANGED <<results_df, tunnelVars, analyzerVars, simulatorVars, loadVars,
                           testVars>>

\* VPNAnalyzer(results_df).generate_report()
AnalyzerGenerateReport ==
    /\ n_best.report < MaxInvocations
    /\ best_pqc' = [best_pqc EXCEPT !.report = ReportBest(results_df)]
    /\ n_best' = [n_best EXCEPT !.report = @ + 1]
    /\ reportFrame

\* generate_executive_summary() with the table in vpn_simulation_results.csv
GenerateExecutiveSummary ==
    /\ n_best.summary < MaxInvocations
    /\ best_pqc' = [best_pqc EXCEPT !.summary = SummaryBest(results_df)]
    /\ n_best' = [n_best EXCEPT !.summary = @ + 1]
    /\ reportFrame

ReportNext ==
    \/ AnalyzerGenerateReport
    \/ GenerateExecutiveSummary

ReportSpec == ReportInit /\ [][ReportNext]_vars

\* ------------------------- src/vpn_topology_simulation.py: RemoteAccessVPN

\* Users the remote-access simulator is built with, at most.
MaxUsers == 2

\* _generate_user_locations draws distance_km from randint(5, 1000), modelled
\* by the two ends, and connection_type from the four link types.  The
\* bandwidth_mbps of a user, which no computation reads, is left out.
Distances == {5, 1000}
ConnectionTypes == {"Fiber", "Cable", "DSL", "4G"}

User(user_id, distance_km, connection_type) ==
    [user_id |-> user_id, distance_km |-> distance_km, connection_type |-> connection_type]

\* The lists _generate_user_locations can build for num_users users.
UserLocations(num_users) ==
    {[i \in 1..num_users |-> User(i, f[i][1], f[i][2])] :
         f \in [1..num_users -> Distances \X ConnectionTypes]}

\* Arguments of simulate_concurrent_connections.  "Falcon-512" is a name
\* base_times has no entry for; of the load levels, one is below the level
\* at which the failure probability is capped and one above it.
LoadCryptoTypes == {"Kyber-768", "Falcon-512"}
ConcurrentLevels == {0, 1, 200}

DEFAULT_BASE_TIME == 150

\* base_times
BaseTimes ==
    ("RSA-2048" :> 100) @@ ("ECC-P256" :> 60) @@ ("Kyber-512" :> 150)
    @@ ("Kyber-768" :> 200) @@ ("Kyber-1024" :> 250) @@ ("Dilithium-2" :> 180)
    @@ ("Dilithium-3" :> 220)

\* base_times.get(crypto_type, 150)
BaseTime(crypto_type) ==
    IF crypto_type \in DOMAIN BaseTimes THEN BaseTimes[crypto_type] ELSE DEFAULT_BASE_TIME

\* connection_factors
ConnectionFactors ==
    ("Fiber" :> <<1, 1>>) @@ ("Cable" :> <<6, 5>>) @@ ("DSL" :> <<3, 2>>)
    @@ ("4G" :> <<9, 5>>)

\* distance_factor = 1 + (user['distance_km'] / 1000)
DistanceFactor(user) == RAdd(Rat(1), Norm(user.distance_km, 1000))

\* connection_time = base_time * distance_factor * conn_factor
ConnectionTime(base_time, user) ==
    RMul(RMul(Rat(base_time), DistanceFactor(user)), ConnectionFactors[user.connection_type])

FAILURE_CAP == <<3, 10>>
FAILURE_SCALE == 500
RETRY_FACTOR == 3

\* Faulty variant: the probability without its cap.
FailureProbability_uncapped(concurrent_users) == Norm(concurrent_users, FAILURE_SCALE)

\* failure_probability = min(0.3, concurrent_users / 500)
FailureProbability(concurrent_users) ==
    RMin(FAILURE_CAP, Norm(concurrent_users, FAILURE_SCALE))

\* Faulty variant: the time of a failed attempt is not kept.
AfterAttempt_drop_failed(times, connection_time, failed) ==
    IF failed THEN times ELSE Append(times, connection_time)

\* connection_times after an attempt: a failed one takes 3 times as long.
AfterAttempt(times, connection_time, failed) ==
    Append(times, IF failed THEN RMul(connection_time, Rat(RETRY_FACTOR)) ELSE connection_time)

\* random.sample(population, k): the k-element lists without repetition.
Samples(population, k) ==
    {[i \in 1..k |-> population[f[i]]] :
         f \in {g \in [1..k -> 1..Len(population)] :
                    \A i, j \in 1..k : i # j => g[i] # g[j]}}

\* The dictionary simulate_concurrent_connections returns; np.max of an empty
\* list raises ValueError (np.mean of it only warns), and the success rate
\* divides by concurrent_users.
ConcurrentResult(l) ==
    IF l.connection_times = <<>> THEN [outcome |-> "ValueError"]
    ELSE IF l.concurrent_users = 0 THEN [outcome |-> "ZeroDivisionError"]
    ELSE [outcome |-> "ok",
          crypto_type |-> l.crypto_type,
          concurrent_users |-> l.concurrent_users,
          avg_connection_time_ms |-> RMean(l.connection_times),
          max_connection_time_ms |-> RMaxOf(l.connection_times),
          min_connection_time_ms |-> RMinOf(l.connection_times),
          success_rate |->
              RMul(Norm(l.successful_connections, l.concurrent_users), Rat(PERCENT)),
          failed_connections |-> l.failed_connections]

\* RemoteAccessVPN(num_users)
LoadInit ==
    /\ tunnel_type = "Traditional"
    /\ packet_size_kb = DEFAULT_PACKET_SIZE_KB
    /\ NewTunnel
    /\ NewAnalyzer
    /\ simulator = NewSimulator(DEFAULT_BANDWIDTH_MBPS, DEFAULT_BASE_LATENCY_MS)
    /\ SimulatorLoaded
    /\ NoTests
    /\ NoTable
    /\ \E num_users \in 0..MaxUsers : user_locations \in UserLocations(num_users)
    /\ load = NoLoad
    /\ load_return = NoLoadReturn

loadFrame == UNCHANGED <<user_locations, tunnelVars, analyzerVars, simulatorVars,
                         reportVars, testVars>>

\* simulate_concurrent_connections(crypto_type, concurrent_users), up to its loop.
SimulateConcurrentConnections ==
    /\ load.pc = "idle"
    /\ \E crypto_type \in LoadCryptoTypes, concurrent_users \in ConcurrentLevels :
         \E active_users \in Samples(user_locations,
                                     Min({concurrent_users, Len(user_locations)})) :
             load' = [pc |-> "loop", crypto_type |-> crypto_type,
                      concurrent_users |-> concurrent_users,
                      base_time |-> BaseTime(crypto_type),
                      active_users |-> active_users, connection_times |-> <<>>,
                      attempts |-> <<>>, successful_connections |-> 0,
                      failed_connections |-> 0]
    /\ load_return' = NoLoadReturn
    /\ loadFrame

\* One iteration of `for user in active_users`.  random.random(), in [0, 1),
\* can fall below failure_probability when that is positive, and can always
\* fall above it.
Attempt ==
    /\ load.pc = "loop"
    /\ Len(load.attempts) < Len(load.active_users)
    /\ LET user == load.active_users[Len(load.attempts) + 1]
           connection_time == ConnectionTime(load.base_time, user)
           failure_probability == FailureProbability(load.concurrent_users)
       IN \E failed \in {f \in BOOLEAN : f => RLess(Rat(0), failure_probability)} :
            load' = [load EXCEPT
                        !.connection_times = AfterAttempt(@, connection_time, failed),
                        !.attempts = Append(@, [user |-> user, failed |-> failed,
                                                failure_probability |-> failure_probability]),
                        !.failed_connections = IF failed THEN @ + 1 ELSE @,
                        !.successful_connections = IF failed THEN @ ELSE @ + 1]
    /\ UNCHANGED load_return
    /\ loadFrame

ConcurrentReturn ==
    /\ load.pc = "loop"
    /\ Len(load.attempts) = Len(load.active_users)
    /\ load_return' = ConcurrentResult(load)
    /\ load' = [load EXCEPT !.pc = "idle"]
    /\ loadFrame

LoadNext ==
    \/ SimulateConcurrentConnections
    \/ Attempt
    \/ ConcurrentReturn

LoadSpec == LoadInit /\ [][LoadNext]_vars

\* ------------- src/vpn_tradicional_test.py, src/vpn_postcuantico_test.py,
\* ------------- src/ejecutar_tests.py: the two test cases and their runner

\* Latencies are in tenths of a millisecond; the elapsed wall-clock times the
\* tests store in their metrics are left out.

\* What the runner's subprocess.run meets: the interpreter runs the script,
\* the interpreter does not find the script, or the interpreter cannot be
\* started.
Launches == {"found", "missing", "oserror"}

\* What open(filename, 'w') meets in the test's directory.
Writes == {"ok", "OSError"}

\* What the ping of medir_latencia gives: no answer in time, an output without
\* an average line, or an average (in tenths of a millisecond) with a packet
\* loss line (in percent).
Ping(outcome, avg, loss) == [outcome |-> outcome, avg |-> avg, loss |-> loss]

Pings ==
    {Ping("timeout", 0, 0), Ping("unparsed", 0, 0), Ping("parsed", 200, 0),
     Ping("parsed", 300, 0), Ping("parsed", 200, 25)}

SIMULATED_LATENCY == 185

\* The metrics medir_latencia leaves: the parsed average when the loss line
\* shows 0%; the simulated values when nothing was parsed, and when the print
\* of a packet loss that was never stored raises KeyError inside the try.
LatencyMetrics(ping) ==
    IF ping.outcome = "parsed" /\ ping.loss = 0
    THEN [latency_avg_ms |-> ping.avg, packet_loss_percent |-> 0]
    ELSE [latency_avg_ms |-> SIMULATED_LATENCY, packet_loss_percent |-> 0]

\* secrets.token_bytes(n): <<n, v>> is a string of n bytes, v telling the
\* strings of a length apart.
TokenValues == {1, 2}

TokenBytes(n) == {<<n, v>> : v \in TokenValues}

ByteLen(b) == b[1]

NoneBytes == <<-1, 0>>

KYBER768_PUBLIC_KEY == 1184
KYBER768_PRIVATE_KEY == 2400
KYBER768_CIPHERTEXT == 1088
SHARED_SECRET_BYTES == 32

\* hashlib.sha256(b).hexdigest(): a digest that differs for the byte strings
\* of the model.
Sha256(b) == (b[1] * 31 + b[2] * 17) % 65521

\* Faulty variant: Bob derives a secret of his own from the ciphertext.
Decapsulated_own(ciphertext, clave_privada_bob, secreto_alice) ==
    <<SHARED_SECRET_BYTES, 3 - secreto_alice[2]>>

\* desencapsular_secreto: self.secreto_compartido_bob = self.secreto_compartido_alice
Decapsulated(ciphertext, clave_privada_bob, secreto_alice) == secreto_alice

\* The status of the interpreter that ran a test script: 2 when it did not
\* find the script; 0 when the script ran, since __main__ drops what
\* ejecutar_test returned and ejecutar_test catches every Exception.
ReturnCode(launch, result) == IF launch = "missing" THEN 2 ELSE 0

\* ejecutar_test(script_name, test_name) of the runner.
RunnerResult(launch, result) ==
    IF launch = "oserror" THEN FALSE ELSE ReturnCode(launch, result) = 0

Resultado(test, resultado) == [test |-> test, resultado |-> resultado]

\* sum(resultados.values())
Exitosos(resultados) == Cardinality({i \in 1..Len(resultados) : resultados[i].resultado})

\* The value main returns to sys.exit.
ExitStatus(resultados) == IF Exitosos(resultados) = Len(resultados) THEN 0 ELSE 1

NoSuite == [pc |-> "idle", resultados |-> <<>>, launches |-> <<>>, exit_status |-> -1]

\* VPNTradicionalTest.__init__, before its process is started.
NewTradicionalTest ==
    [pc |-> "none", steps |-> <<>>, tunnel_active |-> FALSE, tunnel_status |-> "unset",
     latency_avg_ms |-> -1, packet_loss_percent |-> -1, file_written |-> FALSE,
     result |-> "none"]

\* VPNPostCuanticoTest.__init__, before its process is started.
NewPostCuanticoTest ==
    [pc |-> "none", steps |-> <<>>, pqcrypto_available |-> "unset",
     clave_publica_alice |-> NoneBytes, clave_publica_bob |-> NoneBytes,
     clave_privada_bob |-> NoneBytes, ciphertext |-> NoneBytes,
     secreto_compartido_alice |-> NoneBytes, secreto_compartido_bob |-> NoneBytes,
     hash_alice |-> -1, hash_bob |-> -1, key_integrity_valid |-> "unset",
     validated |-> "none", logs_written |-> FALSE, result |-> "none"]

TestInit ==
    /\ tunnel_type = "Traditional"
    /\ packet_size_kb = DEFAULT_PACKET_SIZE_KB
    /\ NewTunnel
    /\ NewAnalyzer
    /\ simulator = NewSimulator(DEFAULT_BANDWIDTH_MBPS, DEFAULT_BASE_LATENCY_MS)
    /\ SimulatorLoaded
    /\ NoTable
    /\ NoRemoteAccess
    /\ suite = NoSuite
    /\ cp01 = NewTradicionalTest
    /\ cp02 = NewPostCuanticoTest

testFrame == UNCHANGED <<tunnelVars, analyzerVars, simulatorVars, reportVars, loadVars>>

\* main() of ejecutar_tests.py is started.
SuiteMain ==
    /\ suite.pc = "idle"
    /\ suite' = [NoSuite EXCEPT !.pc = "launch_cp01"]
    /\ cp01' = NewTradicionalTest
    /\ cp02' = NewPostCuanticoTest
    /\ testFrame

\* resultados['CP-01'] = ejecutar_test('vpn_tradicional_test.py', ...): the
\* subprocess is started, or the call ends at once without a test.
EjecutarTradicional ==
    /\ suite.pc = "launch_cp01"
    /\ \E launch \in Launches :
         IF launch = "found"
         THEN /\ suite' = [suite EXCEPT !.pc = "run_cp01",
                                        !.launches = Append(@, launch)]
              /\ cp01' = [cp01 EXCEPT !.pc = "claves"]
         ELSE /\ suite' = [suite EXCEPT
                             !.pc = "launch_cp02",
                             !.launches = Append(@, launch),
                             !.resultados =
                                 Append(@, Resultado("CP-01", RunnerResult(launch, "none")))]
              /\ cp01' = cp01
    /\ UNCHANGED cp02
    /\ testFrame

GenerarClavesTradicionales ==
    /\ cp01.pc = "claves"
    /\ cp01' = [cp01 EXCEPT !.pc = "tunel", !.steps = Append(@, "generar_claves")]
    /\ UNCHANGED <<suite, cp02>>
    /\ testFrame

EstablecerTunel ==
    /\ cp01.pc = "tunel"
    /\ cp01' = [cp01 EXCEPT !.pc = "latencia",
                            !.steps = Append(@, "establecer_tunel"),
                            !.tunnel_active = TRUE,
                            !.tunnel_status = "ACTIVE"]
    /\ UNCHANGED <<suite, cp02>>
    /\ testFrame

\* medir_latencia returns True on every path.
MedirLatencia ==
    /\ cp01.pc = "latencia"
    /\ \E ping \in Pings :
         cp01' = [cp01 EXCEPT
                    !.pc = "archivo",
                    !.steps = Append(@, "medir_latencia"),
                    !.latency_avg_ms = LatencyMetrics(ping).latency_avg_ms,
                    !.packet_loss_percent = LatencyMetrics(ping).packet_loss_percent]
    /\ UNCHANGED <<suite, cp02>>
    /\ testFrame

\* generar_archivo_metricas, and the end of ejecutar_test: True after the
\* summary is printed, False from the except clause when open raised.
GenerarArchivoMetricas ==
    /\ cp01.pc = "archivo"
    /\ \E write \in Writes :
         cp01' = [cp01 EXCEPT
                    !.pc = "returned",
                    !.steps = Append(@, "generar_archivo"),
                    !.file_written = (write = "ok"),
                    !.result = IF write = "ok" THEN "True" ELSE "False"]
    /\ UNCHANGED <<suite, cp02>>
    /\ testFrame

\* The CP-01 process ends and the runner stores what it makes of its status.
TradicionalExit ==
    /\ suite.pc = "run_cp01"
    /\ cp01.pc = "returned"
    /\ suite' = [suite EXCEPT
                   !.pc = "launch_cp02",
                   !.resultados =
                       Append(@, Resultado("CP-01", RunnerResult("found", cp01.result)))]
    /\ cp01' = [cp01 EXCEPT !.pc = "exited"]
    /\ UNCHANGED cp02
    /\ testFrame

\* resultados['CP-02'] = ejecutar_test('vpn_postcuantico_test.py', ...)
EjecutarPostCuantico ==
    /\ suite.pc = "launch_cp02"
    /\ \E launch \in Launches :
         IF launch = "found"
         THEN /\ suite' = [suite EXCEPT !.pc = "run_cp02",
                                        !.launches = Append(@, launch)]
              /\ cp02' = [cp02 EXCEPT !.pc = "librerias"]
         ELSE /\ suite' = [suite EXCEPT
                             !.pc = "summary",
                             !.launches = Append(@, launch),
                             !.resultados =
                                 Append(@, Resultado("CP-02", RunnerResult(launch, "none")))]
              /\ cp02' = cp02
    /\ UNCHANGED cp01
    /\ testFrame

\* verificar_librerias_pqc returns True with or without pqcrypto.
VerificarLibreriasPqc ==
    /\ cp02.pc = "librerias"
    /\ \E available \in {"True", "False"} :
         cp02' = [cp02 EXCEPT !.pc = "claves",
                              !.steps = Append(@, "verificar_librerias"),
                              !.pqcrypto_available = available]
    /\ UNCHANGED <<suite, cp01>>
    /\ testFrame

GenerarClavesKyber ==
    /\ cp02.pc = "claves"
    /\ \E pk_alice \in TokenBytes(KYBER768_PUBLIC_KEY),
          pk_bob \in TokenBytes(KYBER768_PUBLIC_KEY),
          sk_bob \in TokenBytes(KYBER768_PRIVATE_KEY) :
         cp02' = [cp02 EXCEPT !.pc = "encapsular",
                              !.steps = Append(@, "generar_claves"),
                              !.clave_publica_alice = pk_alice,
                              !.clave_publica_bob = pk_bob,
                              !.clave_privada_bob = sk_bob]
    /\ UNCHANGED <<suite, cp01>>
    /\ testFrame

EncapsularSecreto ==
    /\ cp02.pc = "encapsular"
    /\ \E secreto \in TokenBytes(SHARED_SECRET_BYTES),
          ciphertext \in TokenBytes(KYBER768_CIPHERTEXT) :
         cp02' = [cp02 EXCEPT !.pc = "desencapsular",
                              !.steps = Append(@, "encapsular"),
                              !.secreto_compartido_alice = secreto,
                              !.ciphertext = ciphertext]
    /\ UNCHANGED <<suite, cp01>>
    /\ testFrame

DesencapsularSecreto ==
    /\ cp02.pc = "desencapsular"
    /\ cp02' = [cp02 EXCEPT
                  !.pc = "validar",
                  !.steps = Append(@, "desencapsular"),
                  !.secreto_compartido_bob =
                      Decapsulated(cp02.ciphertext, cp02.clave_privada_bob,
                                   cp02.secreto_compartido_alice)]
    /\ UNCHANGED <<suite, cp01>>
    /\ testFrame

\* validar_integridad_claves, and the raise of ejecutar_test when it returned
\* False, which the except clause turns into the result False.
ValidarIntegridadClaves ==
    /\ cp02.pc = "validar"
    /\ LET hash_alice == Sha256(cp02.secreto_compartido_alice)
           hash_bob == Sha256(cp02.secreto_compartido_bob)
           coinciden == hash_alice = hash_bob
       IN cp02' = [cp02 EXCEPT
                     !.pc = IF coinciden THEN "logs" ELSE "returned",
                     !.steps = Append(@, "validar"),
                     !.hash_alice = hash_alice,
                     !.hash_bob = hash_bob,
                     !.key_integrity_valid = IF coinciden THEN "True" ELSE "False",
                     !.validated = IF coinciden THEN "True" ELSE "False",
                     !.result = IF coinciden THEN @ ELSE "False"]
    /\ UNCHANGED <<suite, cp01>>
    /\ testFrame

\* generar_logs_detallados, and the end of ejecutar_test.
GenerarLogsDetallados ==
    /\ cp02.pc = "logs"
    /\ \E write \in Writes :
         cp02' = [cp02 EXCEPT
                    !.pc = "returned",
                    !.steps = Append(@, "generar_logs"),
                    !.logs_written = (write = "ok"),
                    !.result = IF write = "ok" THEN "True" ELSE "False"]
    /\ UNCHANGED <<suite, cp01>>
    /\ testFrame

\* The CP-02 process ends and the runner stores what it makes of its status.
PostCuanticoExit ==
    /\ suite.pc = "run_cp02"
    /\ cp02.pc = "returned"
    /\ suite' = [suite EXCEPT
                   !.pc = "summary",
                   !.resultados =
                       Append(@, Resultado("CP-02", RunnerResult("found", cp02.result)))]
    /\ cp02' = [cp02 EXCEPT !.pc = "exited"]
    /\ UNCHANGED cp01
    /\ testFrame

\* The summary of main and sys.exit(main()).
SuiteExit ==
    /\ suite.pc = "summary"
    /\ suite' = [suite EXCEPT !.pc = "exited",
                              !.exit_status = ExitStatus(suite.resultados)]
    /\ UNCHANGED <<cp01, cp02>>
    /\ testFrame

TestNext ==
    \/ SuiteMain
    \/ EjecutarTradicional
    \/ GenerarClavesTradicionales
    \/ EstablecerTunel
    \/ MedirLatencia
    \/ GenerarArchivoMetricas
    \/ TradicionalExit
    \/ EjecutarPostCuantico
    \/ VerificarLibreriasPqc
    \/ GenerarClavesKyber
    \/ EncapsularSecreto
    \/ DesencapsularSecreto
    \/ ValidarIntegridadClaves
    \/ GenerarLogsDetallados
    \/ PostCuanticoExit
    \/ SuiteExit

TestSpec == TestInit /\ [][TestNext]_vars

\* ================================================================ claims

RECURSIVE SumElapsed(_)
SumElapsed(ps) == IF ps = <<>> THEN 0 ELSE Head(ps).elapsed + SumElapsed(Tail(ps))

PhaseNames(ps) == [i \in 1..Len(ps) |-> ps[i].name]
\* ---------------------------------------------------------------- C1

\* C1 (as stated): a send_data call raises the tunnel-not-established error
\* exactly when the tunnel is not established, and on an established tunnel it
\* returns a timing result instead of failing.
C1_SendDataOriginal ==
    [][SendData =>
         /\ (send_result'.outcome = "TunnelNotEstablished") <=> ~established
         /\ established => send_result'.outcome = "ok"]_vars

\* C1 (amended): a send_data call raises the tunnel-not-established error
\* exactly when the tunnel is not established; on an established tunnel it
\* returns a timing result when size_kb >= 0 and raises ValueError (from
\* time.sleep) when size_kb < 0.
C1_SendDataGuard ==
    [][SendData =>
         /\ (send_result'.outcome = "TunnelNotEstablished") <=> ~established
         /\ established =>
              /\ (send_result'.size_kb >= 0) <=> (send_result'.outcome = "ok")
              /\ (send_result'.size_kb < 0) <=> (send_result'.outcome = "ValueError")]_vars

\* A send_data call failed on the unestablished tunnel and a later one, after
\* establish_tunnel, returned a result.
C1_Witness ==
    /\ send_failed
    /\ established
    /\ send_result.outcome = "ok"

\* ---------------------------------------------------------------- C2

\* C2 (as stated): the record's handshake_total_time is the sum of the elapsed
\* times of all phases the session executed, bulk encryption included.
C2_TotalIsSumOfAllPhases ==
    pc = "done" => returned[1].handshake_total_time = SumElapsed(phases)

IsHandshakePhase(p) == p.name # "encrypt"

IsEncryptPhase(p) == p.name = "encrypt"

\* C2 (amended): the record's handshake_total_time is exactly the sum of the
\* elapsed times of the phases before the bulk-encryption test (keygen,
\* exchange or encapsulate, decapsulate, sign, verify); the bulk-encryption
\* time is not part of it and is recorded as encryption_time.
C2_TotalIsSumOfHandshakePhases ==
    pc = "done" =>
        /\ returned[1].handshake_total_time =
               SumElapsed(SelectSeq(phases, IsHandshakePhase))
        /\ returned[1].encryption_time = SumElapsed(SelectSeq(phases, IsEncryptPhase))

\* A post-quantum session returned its record after a bulk encryption that
\* took time.
C2_Witness ==
    /\ pc = "done"
    /\ returned[1].vpn_type = "PostQuantum"
    /\ returned[1].encryption_time > 0
    /\ Len(phases) = 6

\* ---------------------------------------------------------------- C3

TraditionalSequence == <<"keygen", "exchange", "encrypt">>

PostQuantumSequence ==
    <<"keygen", "encapsulate", "decapsulate", "sign", "verify", "encrypt">>

FamilySequence == IF tunnel_type = "Traditional" THEN TraditionalSequence
                  ELSE PostQuantumSequence

IsPrefix(a, b) == Len(a) <= Len(b) /\ a = SubSeq(b, 1, Len(a))

\* C3: the phases of an establish_tunnel call run in the family's order, each
\* once (Traditional: keygen, exchange, encrypt; otherwise keygen, encapsulate,
\* decapsulate, sign, verify, encrypt); the call returns, and the tunnel
\* becomes established, only when the whole sequence has run.
C3_PhaseOrder ==
    /\ [](IsPrefix(PhaseNames(phases), FamilySequence))
    /\ [](pc = "done" => PhaseNames(phases) = FamilySequence)
    /\ [][established' /\ ~established => PhaseNames(phases') = FamilySequence]_vars

\* A post-quantum tunnel got established with its six phases run.
C3_Witness ==
    /\ tunnel_type = "PostQuantum"
    /\ established
    /\ pc = "done"
    /\ Len(phases) = 6

\* ---------------------------------------------------------------- C4

\* C4: every establish_tunnel call ends; with a non-negative payload size no
\* phase fails, the call ends with the tunnel established and exactly one
\* record returned.
C4_EstablishTerminates ==
    /\ (~Idle) ~> Idle
    /\ (~Idle /\ packet_size_kb >= 0) ~>
           (pc = "done" /\ established /\ Len(returned) = 1)
    /\ [](pc = "raised" => packet_size_kb < 0)

\* A call with payload size 0 ended established.
C4_Witness ==
    /\ pc = "done"
    /\ packet_size_kb = 0
    /\ established
    /\ Len(returned) = 1

\* ---------------------------------------------------------------- C5

\* C5 (as stated): a send_data call before ESTABLISHED puts the session in a
\* terminal FAILED state, so a session on which send_data has failed is never
\* established afterwards.
C5_FailedIsTerminal == ~(send_failed /\ established)

\* C5 (amended): a send_data call before establishment raises and leaves the
\* session as it was, not established and not failed; an establish_tunnel
\* call that returns afterwards leaves it established.
C5_FailedSendLeavesSessionUsable ==
    /\ [][SendData /\ ~established =>
            /\ ~established'
            /\ pc' = pc
            /\ send_result'.outcome = "TunnelNotEstablished"]_vars
    /\ [](send_failed /\ pc = "done" => established /\ Len(returned) = 1)

\* A session on which send_data had failed was established afterwards.
C5_Witness ==
    /\ send_failed
    /\ pc = "done"
    /\ established
    /\ send_result.outcome = "TunnelNotEstablished"

\* ---------------------------------------------------------------- C6

\* C6: the analyzer's collection is append-only: every step leaves the records
\* already collected in place, unchanged and in insertion order, and nothing is
\* dropped or merged, so its length is the number of add_metric calls.
C6_AppendOnly ==
    /\ [][IsPrefix(metrics, metrics')]_vars
    /\ [](Len(metrics) = n_add)

\* After a run_simulation and an add_metric of a record already held, a report
\* was generated over a collection holding a record twice.
C6_Witness ==
    /\ Len(metrics) = MaxMetrics
    /\ \E i, j \in 1..Len(metrics) : i < j /\ metrics[i] = metrics[j]
    /\ sim_outcome = "completed"
    /\ report.outcome = "ok"

\* ---------------------------------------------------------------- C7

TraditionalRecords == SelectSeq(metrics, IsTraditionalMetric)

PostQuantumRecords == SelectSeq(metrics, IsPostQuantumMetric)

\* The mean of a family's field as sum over count (0 over 1 when empty).
Count(ms) == IF ms = <<>> THEN 1 ELSE Len(ms)

\* (mean(as) / mean(bs) - 1) * 100 in closed form:
\* 100 * (sum(as) * |bs| - sum(bs) * |as|) / (sum(bs) * |as|).
ExpectedOverhead(as, bs, field) ==
    Norm(100 * (SumField(as, field) * Count(bs) - SumField(bs, field) * Count(as)),
         SumField(bs, field) * Count(as))

PqcOverTraditional(field) == ExpectedOverhead(PostQuantumRecords, TraditionalRecords, field)

TraditionalOverPqc(field) == ExpectedOverhead(TraditionalRecords, PostQuantumRecords, field)

\* C7 (as stated): every figure of the overhead report is
\* (postquantum_mean / traditional_mean - 1) * 100.
C7_AllPqcOverTraditional ==
    report.outcome = "ok" =>
        /\ report.overhead_analysis.handshake_overhead_percent =
               PqcOverTraditional("handshake_total_time")
        /\ report.overhead_analysis.latency_overhead_percent =
               PqcOverTraditional("latency_ms")
        /\ report.overhead_analysis.throughput_degradation_percent =
               PqcOverTraditional("throughput_mbps")
        /\ report.overhead_analysis.cpu_overhead_percent =
               PqcOverTraditional("cpu_usage_percent")
        /\ report.overhead_analysis.memory_overhead_percent =
               PqcOverTraditional("memory_mb")
        /\ report.overhead_analysis.key_size_increase_percent =
               PqcOverTraditional("key_size")

\* C7 (amended): the handshake, latency, CPU, memory and key-size figures are
\* (postquantum_mean / traditional_mean - 1) * 100; the throughput figure is a
\* degradation, (traditional_mean / postquantum_mean - 1) * 100.
C7_OverheadFormula ==
    report.outcome = "ok" =>
        /\ report.overhead_analysis.handshake_overhead_percent =
               PqcOverTraditional("handshake_total_time")
        /\ report.overhead_analysis.latency_overhead_percent =
               PqcOverTraditional("latency_ms")
        /\ report.overhead_analysis.throughput_degradation_percent =
               TraditionalOverPqc("throughput_mbps")
        /\ report.overhead_analysis.cpu_overhead_percent =
               PqcOverTraditional("cpu_usage_percent")
        /\ report.overhead_analysis.memory_overhead_percent =
               PqcOverTraditional("memory_mb")
        /\ report.overhead_analysis.key_size_increase_percent =
               PqcOverTraditional("key_size")

\* A report over two records of each family whose draws differ, with a
\* throughput degradation that is not zero.
C7_Witness ==
    /\ report.outcome = "ok"
    /\ Len(TraditionalRecords) = 2
    /\ Len(PostQuantumRecords) = 2
    /\ TraditionalRecords[1] # TraditionalRecords[2]
    /\ PostQuantumRecords[1] # PostQuantumRecords[2]
    /\ report.overhead_analysis.throughput_degradation_percent # Rat(0)

\* ---------------------------------------------------------------- C8

ReportFields ==
    {"handshake_overhead_percent", "latency_overhead_percent",
     "throughput_degradation_percent", "cpu_overhead_percent",
     "memory_overhead_percent", "key_size_increase_percent"}

MetricFields ==
    {"handshake_total_time", "latency_ms", "throughput_mbps", "cpu_usage_percent",
     "memory_mb", "key_size"}

\* The family's mean of the field is zero (no record, or all values zero).
ZeroMean(ms, field) == SumField(ms, field) = 0

AllFinite == \A f \in ReportFields : IsFinite(report.overhead_analysis[f])

\* C8 (as stated): generate_report ends with the division-by-zero error when
\* the traditional mean of some dimension is zero, and only then (a zero
\* post-quantum mean alone causes no error); no figure is Infinity or NaN.
C8_ZeroTraditionalMeanOnly ==
    report.outcome # "none" =>
        /\ (report.outcome = "ZeroDivisionError") <=>
               (\E f \in MetricFields : ZeroMean(TraditionalRecords, f))
        /\ report.outcome = "ok" => AllFinite

\* C8 (amended): generate_report raises ZeroDivisionError, and returns no
\* report, exactly when the mean in a divisor is zero: the traditional mean of
\* handshake time, latency, CPU, memory or key size, or the post-quantum mean
\* of throughput.  A zero mean on the other side alone raises nothing, and no
\* figure of a returned report is Infinity or NaN.
C8_ZeroDivisorRaises ==
    report.outcome # "none" =>
        /\ (report.outcome = "ZeroDivisionError") <=>
               \/ \E f \in MetricFields \ {"throughput_mbps"} :
                      ZeroMean(TraditionalRecords, f)
               \/ ZeroMean(PostQuantumRecords, "throughput_mbps")
        /\ report.outcome = "ok" => AllFinite

\* generate_report raised over records of both families because a traditional
\* mean is zero, the post-quantum throughput being positive.
C8_Witness ==
    /\ report.outcome = "ZeroDivisionError"
    /\ TraditionalRecords # <<>>
    /\ ZeroMean(TraditionalRecords, "cpu_usage_percent")
    /\ ~ZeroMean(PostQuantumRecords, "throughput_mbps")

\* ---------------------------------------------------------------- C9

\* C9: generate_report over an empty collection completes without raising and
\* reports zero statistics for both families.
C9_EmptyAggregationCompletes ==
    (report.outcome # "none" /\ metrics = <<>>) =>
        /\ report.outcome = "ok"
        /\ report.traditional = NoStats
        /\ report.postquantum = NoStats

\* ---------------------------------------------------------------- C10

StatFields ==
    {"avg_handshake_ms", "avg_latency_ms", "avg_throughput_mbps", "avg_cpu_percent",
     "avg_memory_mb", "avg_key_size_bytes"}

OverheadOf(stat) ==
    CASE stat = "avg_handshake_ms" -> report.overhead_analysis.handshake_overhead_percent
      [] stat = "avg_latency_ms" -> report.overhead_analysis.latency_overhead_percent
      [] stat = "avg_throughput_mbps" -> report.overhead_analysis.throughput_degradation_percent
      [] stat = "avg_cpu_percent" -> report.overhead_analysis.cpu_overhead_percent
      [] stat = "avg_memory_mb" -> report.overhead_analysis.memory_overhead_percent
      [] stat = "avg_key_size_bytes" -> report.overhead_analysis.key_size_increase_percent

\* C10: in a returned report, a dimension in which the two families have the
\* same mean has an overhead of exactly 0, throughput included.
C10_EqualMeansZeroOverhead ==
    report.outcome = "ok" =>
        \A stat \in StatFields :
            report.traditional[stat] = report.postquantum[stat] =>
                OverheadOf(stat) = Rat(0)

\* A report over families with the same mean in every dimension.
C10_Witness ==
    /\ report.outcome = "ok"
    /\ \A stat \in StatFields :
           /\ report.traditional[stat] = report.postquantum[stat]
           /\ report.traditional[stat] # Rat(0)
    /\ Len(TraditionalRecords) = 2

\* ---------------------------------------------------------------- C11

EntryPoints == {"report", "summary"}

\* The value the entry point selects by, of the quantum-resistant row at
\* position r: the throughput reduction against the traditional mean, to be
\* least, for the report; the negated throughput, to be least, for the summary.
Criterion(entry, r) ==
    IF entry = "summary"
    THEN <<-results_df[r].throughput_mbps[1], results_df[r].throughput_mbps[2]>>
    ELSE PercentOverFloat64(ColumnMean(results_df, TraditionalLabels(results_df),
                                       "throughput_mbps"),
                            results_df[r].throughput_mbps)

\* Whether the entry point has rows to select from.
HasCandidates(entry) ==
    /\ PqcLabels(results_df) # {}
    /\ entry = "report" => TraditionalLabels(results_df) # {}

\* C11: the recommended algorithm is taken from the quantum-resistant rows
\* only; it is a row whose criterion no quantum-resistant row beats, and the
\* first such row of the table (every earlier quantum-resistant row is
\* strictly worse); a selection is returned whenever there are rows to select
\* from, and a repeated invocation on the table returns the same selection.
C11_BestIsFirstAmongQuantumResistant ==
    /\ [](\A entry \in EntryPoints :
            n_best[entry] > 0 =>
              /\ (best_pqc[entry].outcome = "ok") <=> HasCandidates(entry)
              /\ best_pqc[entry].outcome = "ok" =>
                   LET r == best_pqc[entry].row IN
                   /\ r \in PqcLabels(results_df)
                   /\ best_pqc[entry].algorithm = results_df[r].algorithm
                   /\ \A j \in PqcLabels(results_df) :
                        /\ ~RLess(Criterion(entry, j), Criterion(entry, r))
                        /\ j < r => RLess(Criterion(entry, r), Criterion(entry, j)))
    /\ [][\A entry \in EntryPoints :
            n_best[entry] > 0 /\ n_best'[entry] > n_best[entry] =>
                best_pqc'[entry] = best_pqc[entry]]_vars

\* Both entry points were invoked twice on a table whose two quantum-resistant
\* rows tie on the throughput, after a traditional row, and both selected the
\* first of the two.
C11_Witness ==
    /\ n_best.report = MaxInvocations
    /\ n_best.summary = MaxInvocations
    /\ Len(results_df) = 3
    /\ ~results_df[1].quantum_resistant
    /\ results_df[2].quantum_resistant
    /\ results_df[3].quantum_resistant
    /\ results_df[2].algorithm # results_df[3].algorithm
    /\ results_df[2].throughput_mbps = results_df[3].throughput_mbps
    /\ best_pqc.report = Choice("ok", results_df[2].algorithm, 2)
    /\ best_pqc.summary = Choice("ok", results_df[2].algorithm, 2)

\* ---------------------------------------------------------------- C12

\* The records run_simulation collects for the default payload.
SimulatedTraditional == {EstablishedTraditional(DEFAULT_PACKET_SIZE_KB, q) : q \in Quantiles}

SimulatedPostQuantum == {EstablishedPostQuantum(DEFAULT_PACKET_SIZE_KB, q) : q \in Quantiles}

\* A report was generated over the records of n >= 1 simulated sessions of
\* each family, collected in the order run_simulation collects them.
ReportOfSimulation ==
    /\ report.outcome # "none"
    /\ Len(metrics) >= 2
    /\ Len(metrics) % 2 = 0
    /\ \A i \in 1..Len(metrics) :
         IF i % 2 = 1 THEN metrics[i] \in SimulatedTraditional
         ELSE metrics[i] \in SimulatedPostQuantum

\* C12 (as stated): after n >= 1 simulated sessions of each family the
\* handshake overhead of the report is finite and not negative.
C12_HandshakeOverheadNonNegative ==
    ReportOfSimulation =>
        /\ report.outcome = "ok"
        /\ IsFinite(report.overhead_analysis.handshake_overhead_percent)
        /\ ~RLess(report.overhead_analysis.handshake_overhead_percent, Rat(0))

\* C12 (amended): after n >= 1 simulated sessions of each family the handshake
\* overhead of the report is finite and strictly negative, above -100: every
\* post-quantum handshake total is below every traditional one.
C12_HandshakeOverheadNegative ==
    ReportOfSimulation =>
        /\ report.outcome = "ok"
        /\ IsFinite(report.overhead_analysis.handshake_overhead_percent)
        /\ RLess(report.overhead_analysis.handshake_overhead_percent, Rat(0))
        /\ RLess(Rat(-100), report.overhead_analysis.handshake_overhead_percent)
        /\ \A i, j \in 1..Len(metrics) :
             IsTraditionalMetric(metrics[i]) /\ IsPostQuantumMetric(metrics[j]) =>
                 metrics[j].handshake_total_time < metrics[i].handshake_total_time

\* A report over two simulated sessions of each family, among them the
\* fastest traditional handshake and the slowest post-quantum one.
C12_Witness ==
    /\ ReportOfSimulation
    /\ report.outcome = "ok"
    /\ Len(metrics) = 4
    /\ \E i \in 1..4 : metrics[i] = EstablishedTraditional(DEFAULT_PACKET_SIZE_KB, "lo")
    /\ \E j \in 1..4 : metrics[j] = EstablishedPostQuantum(DEFAULT_PACKET_SIZE_KB, "hi")

\* ---------------------------------------------------------------- C13

\* C13: after n >= 1 simulated sessions of each family the key-size increase
\* of the report is strictly positive: every post-quantum record has a larger
\* key size than every traditional record.
C13_KeySizeIncreasePositive ==
    ReportOfSimulation =>
        /\ report.outcome = "ok"
        /\ RLess(Rat(0), report.overhead_analysis.key_size_increase_percent)
        /\ \A i, j \in 1..Len(metrics) :
             IsTraditionalMetric(metrics[i]) /\ IsPostQuantumMetric(metrics[j]) =>
                 metrics[j].key_size > metrics[i].key_size

\* A report over two completed simulation runs of one iteration each, with a
\* key-size increase of 1300 percent.
C13_Witness ==
    /\ ReportOfSimulation
    /\ report.outcome = "ok"
    /\ sim_outcome = "completed"
    /\ Len(metrics) = 4
    /\ n_add = 4
    /\ report.overhead_analysis.key_size_increase_percent = Rat(1300)

\* ---------------------------------------------------------------- C14

\* Load levels around the level, 150, at which the probability reaches its cap.
ProbedLevels == <<0, 1, 149, 150, 151, 200, 500, 600>>

\* min(0.3, concurrent_users / 500), by cases.
ExpectedFailureProbability(concurrent_users) ==
    IF concurrent_users >= 150 THEN <<3, 10>> ELSE Norm(concurrent_users, 500)

\* C14: the failure probability of every attempt is
\* min(0.3, concurrent_users / 500), never above 0.3, and the probability does
\* not decrease as the number of concurrent users grows.
C14_FailureProbabilityCappedMonotone ==
    /\ \A i \in 1..Len(load.attempts) :
         /\ load.attempts[i].failure_probability =
                ExpectedFailureProbability(load.concurrent_users)
         /\ ~RLess(<<3, 10>>, load.attempts[i].failure_probability)
    /\ \A k \in 1..Len(ProbedLevels) :
         /\ FailureProbability(ProbedLevels[k]) =
                ExpectedFailureProbability(ProbedLevels[k])
         /\ k > 1 => ~RLess(FailureProbability(ProbedLevels[k]),
                            FailureProbability(ProbedLevels[k - 1]))

\* An attempt failed at a load of 200 users, where the probability is capped,
\* after an attempt of the same call that did not.
C14_Witness ==
    /\ load.concurrent_users = 200
    /\ Len(load.attempts) = 2
    /\ ~load.attempts[1].failed
    /\ load.attempts[2].failed
    /\ load.attempts[2].failure_probability = <<3, 10>>

\* ---------------------------------------------------------------- C15

\* base_time * (1 + distance_km / 1000) * link factor of the attempt's user.
ExpectedProduct(base_time, user) ==
    RMul(Norm(base_time * (1000 + user.distance_km), 1000),
         ConnectionFactors[user.connection_type])

\* C15: every attempt, failed or not, adds exactly one connection time: 3
\* times base_time * distance_factor * link_type_factor when it failed, that
\* product when it did not; the returned mean, maximum and minimum are taken
\* over the times of all attempts; the link factors are ordered
\* Fiber < Cable < DSL < 4G.
C15_EveryAttemptCounts ==
    /\ Len(load.connection_times) = Len(load.attempts)
    /\ load.successful_connections + load.failed_connections = Len(load.attempts)
    /\ \A i \in 1..Len(load.attempts) :
         i <= Len(load.connection_times) =>
             load.connection_times[i] =
                 IF load.attempts[i].failed
                 THEN RMul(Rat(3), ExpectedProduct(load.base_time, load.attempts[i].user))
                 ELSE ExpectedProduct(load.base_time, load.attempts[i].user)
    /\ load_return.outcome = "ok" =>
         /\ RMul(load_return.avg_connection_time_ms, Rat(Len(load.attempts))) =
                RSum(load.connection_times)
         /\ \A i \in 1..Len(load.connection_times) :
              /\ ~RLess(load_return.max_connection_time_ms, load.connection_times[i])
              /\ ~RLess(load.connection_times[i], load_return.min_connection_time_ms)
    /\ RLess(ConnectionFactors["Fiber"], ConnectionFactors["Cable"])
    /\ RLess(ConnectionFactors["Cable"], ConnectionFactors["DSL"])
    /\ RLess(ConnectionFactors["DSL"], ConnectionFactors["4G"])

\* A call returned its statistics over a failed attempt and a successful one.
C15_Witness ==
    /\ load_return.outcome = "ok"
    /\ Len(load.attempts) = 2
    /\ load.attempts[1].failed
    /\ ~load.attempts[2].failed
    /\ load.failed_connections = 1
    /\ load.successful_connections = 1

\* ---------------------------------------------------------------- C16

\* C16: a call with concurrent_users = 0 returns a result; it does not end
\* with a division by zero nor with the error of a maximum over no value.
C16_ZeroUsersReturnsResult ==
    (load.pc = "idle" /\ load_return.outcome # "none" /\ load.concurrent_users = 0) =>
        load_return.outcome = "ok"

\* ---------------------------------------------------------------- C17

\* C17: a call for an algorithm name without a profile fails: no attempt is
\* simulated for it and no result is returned for it.
C17_UnknownAlgorithmFails ==
    (load.crypto_type # None /\ load.crypto_type \notin DOMAIN BaseTimes) =>
        /\ load.attempts = <<>>
        /\ load_return.outcome # "ok"

\* ---------------------------------------------------------------- C18

\* Whether the session ran a signing phase.
Signed == \E i \in 1..Len(phases) : phases[i].name = "sign"

\* C18 (as stated): the record's signature_size is 0 when the session ran no
\* signing phase, and the size the signing phase produced otherwise.
C18_NoSigningNoSignature ==
    pc = "done" =>
        returned[1].signature_size = IF Signed THEN loc.sig_size ELSE 0

\* C18 (amended): the record of a session that ran no signing phase (a
\* Traditional session) has signature_size 256, the size of an RSA-2048
\* signature; the record of a session that signed has the size its signing
\* phase produced, 3293.
C18_SignatureSize ==
    pc = "done" =>
        /\ Signed <=> tunnel_type # "Traditional"
        /\ returned[1].signature_size = IF Signed THEN loc.sig_size ELSE 256
        /\ Signed => loc.sig_size = 3293

\* A Traditional session, which signs nothing, returned a record with a
\* signature size of 256.
C18_Witness ==
    /\ pc = "done"
    /\ tunnel_type = "Traditional"
    /\ ~Signed
    /\ returned[1].signature_size = 256

\* ---------------------------------------------------------------- C19

CombinedSize(params) == params.key_size + params.signature_size

\* C19: every quantum-resistant entry of the table has a key size plus
\* signature size at least that of RSA-2048.
C19_CombinedSizeAtLeastBaseline ==
    \A c \in DOMAIN crypto_params :
        crypto_params[c].quantum_resistant =>
            CombinedSize(crypto_params[c]) >= CombinedSize(crypto_params["RSA-2048"])

\* A key exchange was simulated with the quantum-resistant entry of the
\* smallest combined size, Kyber-512: 800 bytes against the 512 of RSA-2048.
C19_Witness ==
    /\ sim_return.op = "simulate_key_exchange"
    /\ sim_return.outcome = "ok"
    /\ sim_return.crypto_type = "Kyber-512"
    /\ sim_return.quantum_resistant
    /\ sim_return.key_size_bytes = 800
    /\ CombinedSize(crypto_params["Kyber-512"]) = 800
    /\ CombinedSize(crypto_params["RSA-2048"]) = 512

\* ---------------------------------------------------------------- C20

\* C20: the table has exactly one profile for every member of CryptoType, and
\* no operation of the simulator changes the table or the attributes of the
\* simulator.
C20_ProfilesNeverChange ==
    /\ [](DOMAIN crypto_params = CryptoType)
    /\ [](\A c \in CryptoType : crypto_params[c] \in
            [key_size : Nat, signature_size : Nat, cpu_cycles : Nat,
             quantum_resistant : BOOLEAN])
    /\ [][crypto_params' = crypto_params /\ simulator' = simulator]_vars

\* run_complete_simulation returned the table of all eight algorithms.
C20_Witness ==
    /\ sim_return.op = "run_complete_simulation"
    /\ sim_return.outcome = "ok"
    /\ Len(sim_return.rows) = Cardinality(CryptoType)
    /\ sim_return.rows[8].algorithm = "Dilithium-3"
    /\ crypto_params = CRYPTO_PARAMS

\* ---------------------------------------------------------------- C21

\* Sessions of the running batch that come after the session being simulated.
SessionsAfter ==
    IF sim_pc = "trad" THEN 2 * sim_left - 1
    ELSE IF sim_pc = "pqc" THEN 2 * (sim_left - 1)
    ELSE 0

\* C21: when a session of a batch fails, the batch goes on to the sessions
\* that come after it, and the records collected before it are kept as they
\* are.
C21_FailureDoesNotBlockBatch ==
    [][(sim_pc # "idle" /\ sim_outcome' \notin {"running", "completed"}) =>
          /\ sim_pc' = "idle" => SessionsAfter = 0
          /\ Len(metrics') >= Len(metrics)
          /\ SubSeq(metrics', 1, Len(metrics)) = metrics]_vars

\* ---------------------------------------------------------------- C22

\* C22: the environmental fields of the record are drawn in the step that
\* sets established, and only there; cpu_usage_percent, memory_mb and the
\* latency overhead are within 15..25, 50..80 and 2..5 for a Traditional
\* session and within 25..40, 80..120 and 5..12 for a PostQuantum one, so that
\* no PostQuantum session is below any Traditional session in any of the three.
C22_EnvironmentByFamily ==
    /\ [](pc = "done" =>
            LET m == returned[1] IN
            /\ m.latency_ms - loc.overhead_latency \in 10..20
            /\ IF m.vpn_type = "Traditional"
               THEN /\ m.cpu_usage_percent \in 15..25
                    /\ m.memory_mb \in 50..80
                    /\ loc.overhead_latency \in 2..5
               ELSE /\ m.cpu_usage_percent \in 25..40
                    /\ m.memory_mb \in 80..120
                    /\ loc.overhead_latency \in 5..12)
    /\ [][returned' # returned =>
            \/ returned' = <<>> /\ pc \in {"idle", "done", "raised"}
            \/ /\ pc \in {"t_ret", "q_ret"}
               /\ returned = <<>>
               /\ established'
               /\ pc' = "done"]_vars

\* A PostQuantum session was established with its three figures at the low end
\* of their ranges, where they equal the high end of the Traditional ranges.
C22_Witness ==
    /\ pc = "done"
    /\ established
    /\ returned[1].vpn_type = "PostQuantum"
    /\ returned[1].cpu_usage_percent = 25
    /\ returned[1].memory_mb = 80
    /\ loc.overhead_latency = 5

\* ---------------------------------------------------------------- C23

\* The steps of CP-02 in the order of ejecutar_test.
PostCuanticoSteps ==
    <<"verificar_librerias", "generar_claves", "encapsular", "desencapsular",
      "validar", "generar_logs">>

StepsDone(test) == {test.steps[i] : i \in 1..Len(test.steps)}

\* C23: in CP-02 the steps run in the order verify libraries, generate keys,
\* encapsulate, decapsulate, validate, write logs; once the secret is
\* decapsulated both parties hold the same secret; the validation then
\* returns True and records key_integrity_valid = True; and logs are written
\* only after a validation that succeeded.
C23_PostCuanticoTestOrder ==
    /\ Len(cp02.steps) <= Len(PostCuanticoSteps)
    /\ cp02.steps = SubSeq(PostCuanticoSteps, 1, Len(cp02.steps))
    /\ "desencapsular" \in StepsDone(cp02) =>
         /\ cp02.secreto_compartido_alice \in TokenBytes(32)
         /\ cp02.secreto_compartido_bob = cp02.secreto_compartido_alice
    /\ "validar" \in StepsDone(cp02) =>
         /\ cp02.validated = "True"
         /\ cp02.key_integrity_valid = "True"
         /\ cp02.hash_alice = cp02.hash_bob
    /\ cp02.validated = "False" =>
         /\ "generar_logs" \notin StepsDone(cp02)
         /\ ~cp02.logs_written
         /\ cp02.result = "False"
    /\ cp02.result = "True" =>
         /\ cp02.steps = PostCuanticoSteps
         /\ cp02.logs_written

\* CP-02 ran its six steps, validated the two equal secrets and wrote its logs.
C23_Witness ==
    /\ cp02.result = "True"
    /\ cp02.steps = PostCuanticoSteps
    /\ cp02.key_integrity_valid = "True"
    /\ cp02.secreto_compartido_bob = cp02.secreto_compartido_alice
    /\ cp02.secreto_compartido_bob # NoneBytes
    /\ cp02.logs_written

\* ---------------------------------------------------------------- C24

TestResult(test) == IF test = "CP-01" THEN cp01.result ELSE cp02.result

\* C24: the runner runs CP-01 and then CP-02 whatever CP-01 ended with; a
\* test case it reports as PASA is one whose ejecutar_test returned True; and
\* it exits with status 0 exactly when it reported every test case as PASA.
C24_PasaOnlyWhenTestSucceeded ==
    suite.pc = "exited" =>
        /\ Len(suite.resultados) = 2
        /\ suite.resultados[1].test = "CP-01"
        /\ suite.resultados[2].test = "CP-02"
        /\ \A i \in 1..2 :
             suite.resultados[i].resultado =>
                 TestResult(suite.resultados[i].test) = "True"
        /\ (suite.exit_status = 0) <=>
               (\A i \in 1..2 : suite.resultados[i].resultado)

\* ---------------------------------------------------------------- C25

\* Records the running run_simulation call has still to append.
Pending ==
    IF sim_pc = "trad" THEN 2 * sim_left
    ELSE IF sim_pc = "pqc" THEN 2 * sim_left - 1
    ELSE 0

\* metrics' is metrics with one record of the family appended.
AppendsOne(vpn_type) ==
    /\ Len(metrics') = Len(metrics) + 1
    /\ SubSeq(metrics', 1, Len(metrics)) = metrics
    /\ metrics'[Len(metrics')].vpn_type = vpn_type

\* C25: run_simulation(iterations = n) with the default payload appends
\* exactly 2n records after the records already held, a Traditional and then
\* a PostQuantum one in each iteration, and ends after the n-th iteration; on
\* a fresh analyzer each family then has n records and the report's
\* total_simulations is 2n.
C25_RunSimulationAppendsTwoPerIteration ==
    /\ [][(sim_pc = "idle" /\ sim_pc' # "idle") =>
            /\ sim_pc' = "trad"
            /\ sim_left' >= 1
            /\ metrics' = metrics]_vars
    /\ [][(sim_pc = "trad" /\ sim_size = DEFAULT_PACKET_SIZE_KB) =>
            /\ AppendsOne("Traditional")
            /\ sim_pc' = "pqc"
            /\ sim_left' = sim_left]_vars
    /\ [][(sim_pc = "pqc" /\ sim_size = DEFAULT_PACKET_SIZE_KB) =>
            /\ AppendsOne("PostQuantum")
            /\ sim_left' = sim_left - 1
            /\ IF sim_left = 1
               THEN sim_pc' = "idle" /\ sim_outcome' = "completed"
               ELSE sim_pc' = "trad"]_vars
    /\ [][(sim_pc # "idle" /\ sim_size = DEFAULT_PACKET_SIZE_KB) =>
            Len(metrics') + Pending' = Len(metrics) + Pending]_vars
    /\ [](report.outcome = "ok" => report.total_simulations = Len(metrics))
    /\ [](ReportOfSimulation =>
            /\ Len(TraditionalRecords) = Len(PostQuantumRecords)
            /\ report.total_simulations = 2 * Len(TraditionalRecords))

\* A fresh analyzer after run_simulation(iterations = 1) was called twice, and
\* a report of 4 simulations.
C25_Witness ==
    /\ sim_outcome = "completed"
    /\ sim_pc = "idle"
    /\ n_add = 4
    /\ [i \in 1..Len(metrics) |-> metrics[i].vpn_type] =
           <<"Traditional", "PostQuantum", "Traditional", "PostQuantum">>
    /\ report.outcome = "ok"
    /\ report.total_simulations = 4

\* ---------------------------------------------------------------- C26

\* C26: an established tunnel has a shared secret, and established never goes
\* back from True to False.
C26_EstablishedHasSecret ==
    /\ [](established => shared_secret # None)
    /\ [][established => established']_vars

\* An established tunnel that has sent data, in the middle of a second
\* establish_tunnel call.
C26_Witness ==
    /\ established
    /\ shared_secret # None
    /\ send_result.outcome = "ok"
    /\ pc \in {"t_kex", "q_encap"}

\* ---------------------------------------------------------------- C27

\* A step of send_data that is visible in its recorded outcome.
SendStep == send_result' # send_result \/ send_failed' # send_failed

\* C27 (as stated): send_data changes none of established, shared_secret,
\* tunnel_type and packet_size_kb; when it fails on an unestablished tunnel,
\* established is False and shared_secret is None after it.
C27_FailedSendLeavesNoSecret ==
    [][SendStep =>
          /\ UNCHANGED <<established, shared_secret, tunnel_type, packet_size_kb>>
          /\ send_result'.outcome = "TunnelNotEstablished" =>
                 ~established' /\ shared_secret' = None]_vars

\* C27 (amended): send_data changes none of established, shared_secret,
\* tunnel_type and packet_size_kb, nor anything else of the tunnel; when it
\* fails on an unestablished tunnel, established stays False and
\* shared_secret stays what it was: None on a tunnel on which no
\* establish_tunnel call was made, the secret exchanged on a tunnel whose
\* establish_tunnel call raised.  A later establish_tunnel starts as on a
\* fresh tunnel.
C27_SendDataLeavesTunnelUnchanged ==
    /\ [][SendStep =>
            /\ UNCHANGED <<established, shared_secret, tunnel_type, packet_size_kb,
                           pc, loc, phases, returned>>
            /\ send_result'.outcome = "TunnelNotEstablished" =>
                 /\ ~established'
                 /\ (shared_secret' = None) <=> (pc = "idle")
                 /\ (shared_secret' # None) <=> (pc = "raised")]_vars
    /\ [][(pc \in {"idle", "done", "raised"} /\ pc' \notin {"idle", "done", "raised"}) =>
            /\ pc' = IF tunnel_type = "Traditional" THEN "t_keygen" ELSE "q_keygen"
            /\ loc' = NoLocals
            /\ phases' = <<>>
            /\ returned' = <<>>]_vars

\* send_data failed on a tunnel whose establish_tunnel call had raised after
\* the key exchange: not established, the secret still set.
C27_Witness ==
    /\ send_result.outcome = "TunnelNotEstablished"
    /\ send_failed
    /\ pc = "raised"
    /\ ~established
    /\ shared_secret # None

\* ---------------------------------------------------------------- C28

\* C28: a call with concurrent_users >= 1 that returns has made
\* concurrent_users attempts, successful or failed, so that its success rate
\* is 100 * (1 - failed_connections / concurrent_users), within 0..100; also
\* when concurrent_users is above the number of generated users.
C28_AttemptsEqualConcurrentUsers ==
    (load_return.outcome = "ok" /\ load.concurrent_users >= 1) =>
        /\ load.successful_connections + load.failed_connections = load.concurrent_users
        /\ load_return.success_rate =
               RMul(Rat(100), RSub(Rat(1), Norm(load_return.failed_connections,
                                                load.concurrent_users)))
        /\ ~RLess(load_return.success_rate, Rat(0))
        /\ ~RLess(Rat(100), load_return.success_rate)

\* ---------------------------------------------------------------- C29

\* (key_size * 8) / (bandwidth_mbps * 1e6) * 2^retransmissions, in milliseconds.
ExpectedTransmissionMs(key_size, bandwidth_mbps, retransmissions) ==
    Norm(key_size * 8 * 2^retransmissions * 1000, bandwidth_mbps * 1000000)

\* C29: the retransmission loop is never run forever: for every packet_loss it
\* ends with between 0
\* and 3 retransmissions (3 when packet_loss is 1.0 or more, 0 when it is 0),
\* and the transmission time returned is the loss-free transmission time
\* multiplied by 2^retransmissions.
C29_RetransmissionLoopTerminates ==
    /\ [](kx.retransmissions \in 0..3)
    /\ [](kx.pc = "loop" =>
            RMul(kx.transmission_time, Rat(1000)) =
                ExpectedTransmissionMs(crypto_params[kx.crypto_type].key_size,
                                       simulator.bandwidth_mbps, kx.retransmissions))
    /\ []((sim_return.op = "simulate_key_exchange" /\ sim_return.outcome = "ok") =>
            /\ sim_return.retransmissions \in 0..3
            /\ sim_return.transmission_time_ms =
                   ExpectedTransmissionMs(sim_return.key_size_bytes,
                                          simulator.bandwidth_mbps,
                                          sim_return.retransmissions))
    /\ [][(kx.pc = "loop" /\ kx'.pc = "idle") =>
            /\ sim_return'.retransmissions = kx.retransmissions
            /\ kx.packet_loss >= 100 => kx.retransmissions = 3
            /\ kx.packet_loss <= 0 => kx.retransmissions = 0]_vars
    /\ []<>(kx.pc # "loop")

\* A key exchange with a packet loss above 1.0 returned after 3
\* retransmissions, with 8 times the loss-free transmission time of Kyber-768.
C29_Witness ==
    /\ sim_return.op = "simulate_key_exchange"
    /\ sim_return.outcome = "ok"
    /\ sim_return.crypto_type = "Kyber-768"
    /\ sim_return.retransmissions = 3
    /\ sim_return.transmission_time_ms = ExpectedTransmissionMs(1184, 100, 3)
    /\ kx.pc = "idle"

\* ---------------------------------------------------------------- C30

\* Both entry points have analysed the table.
BothAnalysed == n_best.report > 0 /\ n_best.summary > 0

\* Every throughput of the table is positive.
PositiveThroughputs ==
    \A i \in 1..Len(results_df) : RLess(Rat(0), results_df[i].throughput_mbps)

====
